---------------------------- MODULE Spec2Model ----------------------------
(* A model of the jsonschema crate: the JSON lexer (json/lexer.rs), the     *)
(* JSON number parser (json/parser.rs), the schema compiler                 *)
(* (schema/parser.rs) and the validator (schema/mod.rs, schema/keywords).   *)
EXTENDS Integers, Sequences, FiniteSets, TLC

VARIABLES
    pc,            \* "idle" | "compiled" | "compile_error" | "returned"
    called,        \* which validate_json was entered last ("none" before)
    self,          \* the schema node validate_json was called on
    schema_json,   \* the Json handed to Parser::parse_json_schema
    schema,        \* Result<JsonSchema, SchemaParseError> of the compiler
    key_to_input,  \* the Key argument of validate_json
    input,         \* the instance Json
    before,        \* the annotation Vec as it was when validate_json was entered
    annotations,   \* the annotation Vec (&mut Vec<Annotation>)
    success,       \* the bool validate_json returned
    lex_pc,        \* Lexer::lex_str: "off" | "lexing" | "Ok" | "Err"
    source,        \* the input string, a sequence of chars
    chars,         \* how many chars the Peekable<Chars> iterator has yielded
    current_loc,   \* the Span the lexer keeps as its position
    tokens,        \* the Vec<Token> lex_into pushes to
    lex_error,     \* the TokenizeError of an Err result
    num_pc,        \* Parser::parse_number: "off" | "called" | "returned"
    number_value,  \* the text of the Literal::Number token (`value`)
    number,        \* Result<Json, ParseError> of parse_number
    parse_pc,      \* Parser::parse_tokens: "off" | "called" | "returned" | "panicked"
    tokens_in,     \* the token slice handed to parse_tokens
    parse_result   \* Result<Option<Json>, ParseError> of parse_tokens

schema_vars == <<pc, called, self, schema_json, schema, key_to_input, input, before,
                 annotations, success>>

lexer_vars == <<lex_pc, source, chars, current_loc, tokens, lex_error>>

number_vars == <<num_pc, number_value, number>>

parser_vars == <<parse_pc, tokens_in, parse_result>>

vars == <<schema_vars, lexer_vars, number_vars, parser_vars>>

-----------------------------------------------------------------------------
(* Bounds of the model.                                                     *)

\* longest array instance drawn by Init
MaxArrayLen == 3

\* how many fragments the lexer's input strings are put together from
MaxFragments == 4

\* longest number literal handed to parse_number
MaxLiteralLen == 4

\* how many token texts the slices handed to parse_tokens are put together from
MaxTokens == 4

-----------------------------------------------------------------------------
(* Key: a path, a sequence of Identifier(name) / Index(u) segments.         *)

Key_default == <<>>

copy_of(key) == key

push_str(key, name) == Append(key, [id |-> name])

push_idx(key, i) == Append(key, [idx |-> i])

-----------------------------------------------------------------------------
(* Json values.  Vec indices are 0-based in the code and 1-based in the     *)
(* sequences here: element i of the code is a[i + 1].                       *)

JString(s) == [t |-> "String", s |-> s]

JNumber(integer, leading_zeros, digits, exponent) ==
    [t |-> "Number", integer |-> integer,
     fraction |-> <<leading_zeros, digits>>, exponent |-> exponent]

JBoolean(b) == [t |-> "Boolean", b |-> b]

JNull == [t |-> "Null"]

JArray(items) == [t |-> "Array", a |-> items]

\* o is a function from the key strings of the HashMap to Json values
JObject(o) == [t |-> "Object", o |-> o]

EmptyMap == <<>>

-----------------------------------------------------------------------------
(* The schema tree.                                                         *)

JsonSchema_new(id, vocabulary, defs, schemas, unknowns) ==
    [k |-> "JsonSchema", id |-> id, vocabulary |-> vocabulary, defs |-> defs,
     schemas |-> schemas, unknowns |-> unknowns]

None == [none |-> TRUE]

Some(v) == [some |-> v]

with_root_schemas(schemas) == JsonSchema_new(None, None, None, schemas, EmptyMap)

Primitive(json) == [k |-> "Primitive", json |-> json]

from_primitive(json) == with_root_schemas(<<Primitive(json)>>)

Ref(root) == [k |-> "Ref", schema |-> root]

Logic(op, schemas) == [k |-> "Logic", op |-> op, schemas |-> schemas]

Properties(properties) == [k |-> "Properties", properties |-> properties]

Property_new(name, schemas, required) ==
    [k |-> "Property", required |-> required, name |-> name, schemas |-> schemas]

Type_new(types) == [k |-> "Type", types |-> types]

Enum_new(values) == [k |-> "Enum", allowed_values |-> values]

Items_new(sub) == [k |-> "Items", schema |-> sub]

PrefixItems_new(schemas) == [k |-> "PrefixItems", schemas |-> schemas]

Contains_new(sub) == [k |-> "Contains", schema |-> sub]

-----------------------------------------------------------------------------
(* Annotations.                                                             *)

Unequal(parent, key) == [a |-> "Unequal", schema |-> parent, key |-> key]

TypeError(key, actual) == [a |-> "TypeError", key |-> key, actual |-> actual]

EnumError(key) == [a |-> "EnumError", key |-> key]

ArrayError(key, kind) == [a |-> "ItemsError", key |-> key, kind |-> kind]

PropertyError(property, key, kind) ==
    [a |-> "PropertyError", schema |-> property, key |-> key, kind |-> kind]

LogicError(key, applier, kind) ==
    [a |-> "LogicError", key |-> key, schema |-> applier, kind |-> kind]

PrefixItemsLen(key, len) == [a |-> "PrefixItemsLen", key |-> key, len |-> len]

\* what a validate_json call leaves: its return value and the annotation Vec
Ret(ok, anns) == [success |-> ok, annotations |-> anns]

-----------------------------------------------------------------------------
(* The validator.  Every validate_json takes the annotation Vec as it is    *)
(* and returns Ret(success, the Vec as it leaves it).                       *)

RECURSIVE JsonSchema_validate_json(_, _, _, _)
RECURSIVE RootSchema_validate_json(_, _, _, _, _)

PrimitiveType_from(json) ==
    CASE json.t = "Object" -> "Object"
      [] json.t = "Array" -> "Array"
      [] json.t = "Number" -> "Number"
      [] json.t = "String" -> "String"
      [] json.t = "Boolean" -> "Boolean"
      [] json.t = "Null" -> "Null"

Type_validate_json(ty, key, json, anns) ==
    LET found == \E i \in 1..Len(ty.types) : ty.types[i] = PrimitiveType_from(json)
    IN  IF ~found
        THEN Ret(FALSE, Append(anns, TypeError(copy_of(key), PrimitiveType_from(json))))
        ELSE Ret(TRUE, anns)

Enum_validate_json(en, key, json, anns) ==
    LET ok == \E i \in 1..Len(en.allowed_values) : en.allowed_values[i] = json
    IN  IF ~ok
        THEN Ret(FALSE, Append(anns, EnumError(copy_of(key))))
        ELSE Ret(ok, anns)

\* the filter(..).count() of Property::validate_json: every sub-schema is run
RECURSIVE Property_failures(_, _, _, _, _)
Property_failures(property, i, input_key, value, acc) ==
    IF i > Len(property.schemas) THEN acc
    ELSE LET r == JsonSchema_validate_json(property.schemas[i], copy_of(input_key),
                                           value, acc.annotations)
         IN  Property_failures(property, i + 1, input_key, value,
                 [failures |-> acc.failures + (IF r.success THEN 0 ELSE 1),
                  annotations |-> r.annotations])

\* Property::validate_json with the Missing branch returning `required`
Property_validate_json_MissingFlipped(property, key, json, anns) ==
    IF json.t # "Object"
    THEN Ret(FALSE, Append(anns, PropertyError(property, copy_of(key), "IncorrectType")))
    ELSE IF property.name \in DOMAIN json.o
    THEN LET input_key == push_str(copy_of(key), property.name)
             f == Property_failures(property, 1, input_key, json.o[property.name],
                                    [failures |-> 0, annotations |-> anns])
         IN  IF f.failures # 0
             THEN Ret(FALSE, Append(f.annotations,
                                    PropertyError(property, copy_of(input_key), "Invalid")))
             ELSE Ret(TRUE, f.annotations)
    ELSE Ret(property.required,
             Append(anns, PropertyError(property, copy_of(key), "Missing")))

Property_validate_json(property, key, json, anns) ==
    IF json.t # "Object"
    THEN Ret(FALSE, Append(anns, PropertyError(property, copy_of(key), "IncorrectType")))
    ELSE IF property.name \in DOMAIN json.o
    THEN LET input_key == push_str(copy_of(key), property.name)
             f == Property_failures(property, 1, input_key, json.o[property.name],
                                    [failures |-> 0, annotations |-> anns])
         IN  IF f.failures # 0
             THEN Ret(FALSE, Append(f.annotations,
                                    PropertyError(property, copy_of(input_key), "Invalid")))
             ELSE Ret(TRUE, f.annotations)
    ELSE Ret(~property.required,
             Append(anns, PropertyError(property, copy_of(key), "Missing")))

\* the loop leaving at the first property that fails
RECURSIVE Properties_for_ShortCircuit(_, _, _, _, _)
Properties_for_ShortCircuit(properties, i, key, json, acc) ==
    IF i > Len(properties) THEN acc
    ELSE LET r == Property_validate_json(properties[i], copy_of(key), json, acc.annotations)
         IN  IF ~r.success THEN Ret(FALSE, r.annotations)
             ELSE Properties_for_ShortCircuit(properties, i + 1, key, json,
                                              Ret(acc.success, r.annotations))

\* for property in properties { if !property.validate_json(..) { success = false } }
RECURSIVE Properties_for(_, _, _, _, _)
Properties_for(properties, i, key, json, acc) ==
    IF i > Len(properties) THEN acc
    ELSE LET r == Property_validate_json(properties[i], copy_of(key), json, acc.annotations)
         IN  Properties_for(properties, i + 1, key, json,
                            Ret(acc.success /\ r.success, r.annotations))

\* for i in 0..self.schemas.len(), i counted from 1 here
RECURSIVE PrefixItems_for(_, _, _, _, _)
PrefixItems_for(items, i, key, array, acc) ==
    IF i > Len(items.schemas) THEN acc
    ELSE IF i <= Len(array)
    THEN LET r == JsonSchema_validate_json(items.schemas[i], push_idx(copy_of(key), i - 1),
                                           array[i], acc.annotations)
         IN  PrefixItems_for(items, i + 1, key, array,
                             Ret(acc.success /\ r.success, r.annotations))
    ELSE PrefixItems_for(items, i + 1, key, array,
             Ret(FALSE, Append(acc.annotations,
                               ArrayError(push_idx(copy_of(key), i - 1), "PrefixItemMissing"))))

\* PrefixItems::validate_json pushing PrefixItemsLen only when the prefix matched
PrefixItems_validate_json_LenOnSuccess(items, key, json, anns) ==
    IF json.t # "Array"
    THEN Ret(FALSE, Append(anns, ArrayError(copy_of(key), "NotArray")))
    ELSE LET r == PrefixItems_for(items, 1, key, json.a, Ret(TRUE, anns))
         IN  IF r.success
             THEN Ret(TRUE, Append(r.annotations, PrefixItemsLen(key, Len(items.schemas))))
             ELSE r

PrefixItems_validate_json(items, key, json, anns) ==
    IF json.t # "Array"
    THEN Ret(FALSE, Append(anns, ArrayError(copy_of(key), "NotArray")))
    ELSE LET r == PrefixItems_for(items, 1, key, json.a, Ret(TRUE, anns))
         IN  Ret(r.success, Append(r.annotations, PrefixItemsLen(key, Len(items.schemas))))

\* annotations.iter().find_map(..): the first PrefixItemsLen whose key is key
find_map_PrefixItemsLen(anns, key) ==
    LET hits == {i \in 1..Len(anns) : anns[i].a = "PrefixItemsLen" /\ anns[i].key = key}
    IN  IF hits = {} THEN None
        ELSE Some(anns[CHOOSE i \in hits : \A j \in hits : i <= j].len)

Items_start(anns, key) ==
    LET prefix_len == find_map_PrefixItemsLen(anns, key)
    IN  IF prefix_len # None THEN prefix_len.some ELSE 0

\* for i in start..items.len(), i the 0-based index of the code
RECURSIVE Items_for(_, _, _, _, _)
Items_for(items, i, key, array, acc) ==
    IF i >= Len(array) THEN acc
    ELSE LET r == JsonSchema_validate_json(items.schema, push_idx(copy_of(key), i),
                                           array[i + 1], acc.annotations)
         IN  Items_for(items, i + 1, key, array,
                       Ret(acc.success /\ r.success, r.annotations))

Items_validate_json(items, key, json, anns) ==
    IF json.t # "Array"
    THEN Ret(FALSE, Append(anns, ArrayError(copy_of(key), "NotArray")))
    ELSE Items_for(items, Items_start(anns, key), key, json.a, Ret(TRUE, anns))

\* for i in 0..values.len(); acc.success is the flag `contains`
RECURSIVE Contains_for(_, _, _, _, _)
Contains_for(contains, i, key, values, acc) ==
    IF i >= Len(values) THEN acc
    ELSE LET r == JsonSchema_validate_json(contains.schema, push_idx(copy_of(key), i),
                                           values[i + 1], acc.annotations)
         IN  Contains_for(contains, i + 1, key, values,
                          Ret(acc.success \/ r.success, r.annotations))

Contains_validate_json(contains, key, json, anns) ==
    IF json.t # "Array"
    THEN Ret(FALSE, Append(anns, ArrayError(key, "NotArray")))
    ELSE Contains_for(contains, 0, key, json.a, Ret(FALSE, anns))

\* for schema in schemas { if schema.validate_json(..) { valid += 1 } }
RECURSIVE LogicApplier_for(_, _, _, _, _)
LogicApplier_for(schemas, i, key, json, acc) ==
    IF i > Len(schemas) THEN acc
    ELSE LET r == JsonSchema_validate_json(schemas[i], key, json, acc.annotations)
         IN  LogicApplier_for(schemas, i + 1, key, json,
                 [valid |-> acc.valid + (IF r.success THEN 1 ELSE 0),
                  annotations |-> r.annotations])

\* the match with AnyOf demanding every member, as AllOf does
LogicApplier_verdict_AnyOfAll(op, valid, total_size) ==
    CASE op = "AllOf" -> IF valid # total_size THEN Some("AllOfMissing") ELSE None
      [] op = "AnyOf" -> IF valid # total_size THEN Some("AnyOfMissing") ELSE None
      [] op = "OneOf" -> IF valid = 0 THEN Some("OneOfMissing")
                         ELSE IF valid # 1 THEN Some("OneOfMoreThanOne")
                         ELSE None

\* the match with AllOf content with one valid member, as AnyOf is
LogicApplier_verdict_AllOfAny(op, valid, total_size) ==
    CASE op = "AllOf" -> IF valid = 0 THEN Some("AllOfMissing") ELSE None
      [] op = "AnyOf" -> IF valid = 0 THEN Some("AnyOfMissing") ELSE None
      [] op = "OneOf" -> IF valid = 0 THEN Some("OneOfMissing")
                         ELSE IF valid # 1 THEN Some("OneOfMoreThanOne")
                         ELSE None

\* the match with OneOf lacking the arm for more than one valid member
LogicApplier_verdict_OneOfAny(op, valid, total_size) ==
    CASE op = "AllOf" -> IF valid # total_size THEN Some("AllOfMissing") ELSE None
      [] op = "AnyOf" -> IF valid = 0 THEN Some("AnyOfMissing") ELSE None
      [] op = "OneOf" -> IF valid = 0 THEN Some("OneOfMissing") ELSE None

\* the match on self after the loop: the error kind to push, if any
LogicApplier_verdict(op, valid, total_size) ==
    CASE op = "AllOf" -> IF valid # total_size THEN Some("AllOfMissing") ELSE None
      [] op = "AnyOf" -> IF valid = 0 THEN Some("AnyOfMissing") ELSE None
      [] op = "OneOf" -> IF valid = 0 THEN Some("OneOfMissing")
                         ELSE IF valid # 1 THEN Some("OneOfMoreThanOne")
                         ELSE None

\* LogicApplier::validate_json pushing its LogicError ahead of what its members
\* pushed
LogicApplier_validate_json_ErrorFirst(logic, key, json, anns) ==
    LET lkey == Key_default
        own(kind, after) ==
            <<LogicError(lkey, logic, kind)>> \o SubSeq(after, Len(anns) + 1, Len(after))
    IN  IF logic.op = "Not"
        THEN LET r == JsonSchema_validate_json(logic.schemas[1], key, json, anns)
             IN  IF r.success
                 THEN Ret(FALSE, anns \o own("NotIs", r.annotations))
                 ELSE Ret(TRUE, r.annotations)
        ELSE LET total_size == Len(logic.schemas)
                 l == LogicApplier_for(logic.schemas, 1, key, json,
                                       [valid |-> 0, annotations |-> anns])
                 verdict == LogicApplier_verdict(logic.op, l.valid, total_size)
             IN  IF verdict # None
                 THEN Ret(FALSE, anns \o own(verdict.some, l.annotations))
                 ELSE Ret(TRUE, l.annotations)

\* LogicApplier::validate_json with a Not that hands back the Vec as it found
\* it when its member fails
LogicApplier_validate_json_NotDiscards(logic, key, json, anns) ==
    LET lkey == Key_default
    IN  IF logic.op = "Not"
        THEN LET r == JsonSchema_validate_json(logic.schemas[1], key, json, anns)
             IN  IF r.success
                 THEN Ret(FALSE, Append(r.annotations, LogicError(lkey, logic, "NotIs")))
                 ELSE Ret(TRUE, anns)
        ELSE LET total_size == Len(logic.schemas)
                 l == LogicApplier_for(logic.schemas, 1, key, json,
                                       [valid |-> 0, annotations |-> anns])
                 verdict == LogicApplier_verdict(logic.op, l.valid, total_size)
             IN  IF verdict # None
                 THEN Ret(FALSE, Append(l.annotations,
                                        LogicError(copy_of(lkey), logic, verdict.some)))
                 ELSE Ret(TRUE, l.annotations)

LogicApplier_validate_json(logic, key, json, anns) ==
    LET lkey == Key_default
    IN  IF logic.op = "Not"
        THEN LET r == JsonSchema_validate_json(logic.schemas[1], key, json, anns)
             IN  IF r.success
                 THEN Ret(FALSE, Append(r.annotations, LogicError(lkey, logic, "NotIs")))
                 ELSE Ret(TRUE, r.annotations)
        ELSE LET total_size == Len(logic.schemas)
                 l == LogicApplier_for(logic.schemas, 1, key, json,
                                       [valid |-> 0, annotations |-> anns])
                 verdict == LogicApplier_verdict(logic.op, l.valid, total_size)
             IN  IF verdict # None
                 THEN Ret(FALSE, Append(l.annotations,
                                        LogicError(copy_of(lkey), logic, verdict.some)))
                 ELSE Ret(TRUE, l.annotations)

RootSchema_validate_json(root, parent, key, json, anns) ==
    CASE root.k = "Ref" ->
            RootSchema_validate_json(root.schema, parent, key, json, anns)
      [] root.k = "Primitive" ->
            IF json # root.json
            THEN Ret(FALSE, Append(anns, Unequal(parent, copy_of(key))))
            ELSE Ret(TRUE, anns)
      [] root.k = "Logic" -> LogicApplier_validate_json(root, key, json, anns)
      [] root.k = "Properties" ->
            Properties_for(root.properties, 1, key, json, Ret(TRUE, anns))
      [] root.k = "Type" -> Type_validate_json(root, key, json, anns)
      [] root.k = "Enum" -> Enum_validate_json(root, key, json, anns)
      [] root.k = "PrefixItems" -> PrefixItems_validate_json(root, key, json, anns)
      [] root.k = "Items" -> Items_validate_json(root, key, json, anns)
      [] root.k = "Contains" -> Contains_validate_json(root, key, json, anns)

\* for schema in self.schemas() { if !schema.validate_json(..) { success = false } }
RECURSIVE JsonSchema_for(_, _, _, _, _)
JsonSchema_for(js, i, key, json, acc) ==
    IF i > Len(js.schemas) THEN acc
    ELSE LET r == RootSchema_validate_json(js.schemas[i], js, copy_of(key), json,
                                           acc.annotations)
         IN  JsonSchema_for(js, i + 1, key, json,
                            Ret(acc.success /\ r.success, r.annotations))

JsonSchema_validate_json(js, key, json, anns) ==
    JsonSchema_for(js, 1, key, json, Ret(TRUE, anns))

-----------------------------------------------------------------------------
(* The schema compiler (schema/parser.rs).  A Json object is a HashMap and  *)
(* the compiler iterates it, so the order in which the keys are visited is  *)
(* not fixed: every parse_* operator is the SET of results the compiler can *)
(* return, one for each iteration order.                                    *)

Ok(v) == [ok |-> TRUE, v |-> v]

Err(key, kind) == [ok |-> FALSE, key |-> key, kind |-> kind]

Oks(rs) == {r \in rs : r.ok}

Errs(rs) == {r \in rs : ~r.ok}

Uri_from_string(value) == [normalized |-> FALSE, value |-> value]

PrimitiveType_from_str(s) ==
    CASE s = "null" -> Some("Null")
      [] s = "boolean" -> Some("Boolean")
      [] s = "object" -> Some("Object")
      [] s = "array" -> Some("Array")
      [] s = "number" -> Some("Number")
      [] s = "string" -> Some("String")
      [] s = "integer" -> Some("Integer")
      [] OTHER -> None

RECURSIVE parse_json_schema_rec(_, _)

\* parse_logic_kw!: for i in 0..array.len() { all_ofs.push(rec(key.copy_of(), entry)?) }
RECURSIVE parse_logic_entries(_, _, _, _)
parse_logic_entries(key, array, i, all_ofs) ==
    IF i > Len(array) THEN {Ok(all_ofs)}
    ELSE LET rs == parse_json_schema_rec(copy_of(key), array[i])
         IN  Errs(rs) \cup
             UNION {parse_logic_entries(key, array, i + 1, Append(all_ofs, r.v)) :
                    r \in Oks(rs)}

\* the macro without its array.len() > 0 test
parse_logic_kw_EmptyAccepted(logic_type, key, json) ==
    IF json.t = "Array"
    THEN {Ok(Logic(logic_type, r.v)) : r \in Oks(parse_logic_entries(key, json.a, 1, <<>>))}
         \cup Errs(parse_logic_entries(key, json.a, 1, <<>>))
    ELSE {Err(key, "NotArray")}

parse_logic_kw(logic_type, key, json) ==
    IF json.t = "Array"
    THEN IF Len(json.a) > 0
         THEN {Ok(Logic(logic_type, r.v)) : r \in Oks(parse_logic_entries(key, json.a, 1, <<>>))}
              \cup Errs(parse_logic_entries(key, json.a, 1, <<>>))
         ELSE {Err(key, "ArrayEmpty")}
    ELSE {Err(key, "NotArray")}

parse_all_of(key, json) == parse_logic_kw("AllOf", key, json)

parse_any_of(key, json) == parse_logic_kw("AnyOf", key, json)

parse_one_of(key, json) == parse_logic_kw("OneOf", key, json)

parse_not(key, json) ==
    LET rs == parse_json_schema_rec(key, json)
    IN  Errs(rs) \cup {Ok(Logic("Not", <<r.v>>)) : r \in Oks(rs)}

parse_enum(key, json) ==
    IF json.t = "Array" THEN {Ok(Enum_new(json.a))} ELSE {Err(key, "NotArray")}

\* the loop of parse_type over an array of type names; i is the 0-based counter
RECURSIVE parse_type_for(_, _, _, _)
parse_type_for(key, values, i, types) ==
    IF i >= Len(values) THEN Ok(types)
    ELSE IF values[i + 1].t = "String"
    THEN IF PrimitiveType_from_str(values[i + 1].s) # None
         THEN parse_type_for(key, values, i + 1,
                             Append(types, PrimitiveType_from_str(values[i + 1].s).some))
         ELSE Err(push_idx(key, i), "InvalidType")
    ELSE Err(push_idx(key, i), "InvalidType")

parse_type(key, json) ==
    LET types == CASE json.t = "Array" -> parse_type_for(key, json.a, 0, <<>>)
                   [] json.t = "String" ->
                        IF PrimitiveType_from_str(json.s) # None
                        THEN Ok(<<PrimitiveType_from_str(json.s).some>>)
                        ELSE Err(key, "InvalidType")
                   [] OTHER -> Err(key, "InvalidType")
    IN  IF types.ok THEN {Ok(Type_new(types.v))} ELSE {types}

parse_items(key, json) ==
    LET rs == parse_json_schema_rec(copy_of(key), json)
    IN  Errs(rs) \cup {Ok(Items_new(r.v)) : r \in Oks(rs)}

\* for i in 0..array.len() { schemas.push(rec(key.copy_of().push_idx(i), entry)?) }
RECURSIVE parse_prefix_items_for(_, _, _, _)
parse_prefix_items_for(key, array, i, schemas) ==
    IF i >= Len(array) THEN {Ok(schemas)}
    ELSE LET rs == parse_json_schema_rec(push_idx(copy_of(key), i), array[i + 1])
         IN  Errs(rs) \cup
             UNION {parse_prefix_items_for(key, array, i + 1, Append(schemas, r.v)) :
                    r \in Oks(rs)}

parse_prefix_items(key, json) ==
    IF json.t # "Array" THEN {Err(key, "InvalidType")}
    ELSE LET rs == parse_prefix_items_for(key, json.a, 0, <<>>)
         IN  Errs(rs) \cup {Ok(PrefixItems_new(r.v)) : r \in Oks(rs)}

parse_contains(key, json) ==
    LET rs == parse_json_schema_rec(key, json)
    IN  Errs(rs) \cup {Ok(Contains_new(r.v)) : r \in Oks(rs)}

\* the keys parse_root_schemas turns into a RootSchema
Keywords ==
    {"allOf", "anyOf", "oneOf", "not", "enum", "type", "items", "prefixItems", "contains"}

\* the match k.as_str() of parse_root_schemas, for k a known keyword
parse_keyword(k, key, v) ==
    CASE k = "allOf" -> parse_all_of(key, v)
      [] k = "anyOf" -> parse_any_of(key, v)
      [] k = "oneOf" -> parse_one_of(key, v)
      [] k = "not" -> parse_not(key, v)
      [] k = "enum" -> parse_enum(key, v)
      [] k = "type" -> parse_type(key, v)
      [] k = "items" -> parse_items(key, v)
      [] k = "prefixItems" -> parse_prefix_items(key, v)
      [] k = "contains" -> parse_contains(key, v)

\* for (k, v) in input: rest holds the entries the iterator has not yielded yet,
\* and any of them may come next
RECURSIVE parse_root_schemas_for(_, _, _, _, _)
parse_root_schemas_for(key, object, rest, schemas, unknowns) ==
    IF rest = {} THEN {Ok(<<schemas, unknowns>>)}
    ELSE UNION {
        IF k \in Keywords
        THEN LET rs == parse_keyword(k, push_str(copy_of(key), k), object[k])
             IN  Errs(rs) \cup
                 UNION {parse_root_schemas_for(key, object, rest \ {k},
                                               Append(schemas, r.v), unknowns) :
                        r \in Oks(rs)}
        ELSE parse_root_schemas_for(key, object, rest \ {k}, schemas,
                                    unknowns @@ (k :> object[k]))
        : k \in rest}

parse_root_schemas(key, object, keys) ==
    parse_root_schemas_for(key, object, keys, <<>>, EmptyMap)

parse_vocabulary(key, object) ==
    LET vocab_key == push_str(key, "$vocabulary")
    IN  IF "$vocabulary" \notin DOMAIN object THEN {Ok(None)}
        ELSE IF object["$vocabulary"].t # "Object"
        THEN {Err(push_str(vocab_key, "$vocabulary"), "IllegalVocabularyType")}
        ELSE LET vocab_input == object["$vocabulary"].o
                 not_bool == {k \in DOMAIN vocab_input : vocab_input[k].t # "Boolean"}
             IN  IF not_bool # {}
                 THEN {Err(push_str(vocab_key, k), "VocabularyNotBool") : k \in not_bool}
                 ELSE {Ok(Some([u \in {Uri_from_string(k) : k \in DOMAIN vocab_input} |->
                                    vocab_input[u.value].b]))}

parse_defs(key, object) ==
    LET defs_key == push_str(key, "$defs")
    IN  IF "$defs" \notin DOMAIN object THEN {Ok(None)}
        ELSE IF object["$defs"].t # "Object" THEN {Err(defs_key, "NotObject")}
        ELSE LET defs_input == object["$defs"].o
                 rs(k) == parse_json_schema_rec(push_str(copy_of(defs_key), k), defs_input[k])
                 all_ok == UNION {{r.v : r \in Oks(rs(k))} : k \in DOMAIN defs_input}
             IN  {Err(push_str(copy_of(defs_key), k), e.kind) :
                      <<k, e>> \in UNION {{<<n, r>> : r \in Errs(rs(n))} :
                                          n \in DOMAIN defs_input}}
                 \cup
                 {Ok(Some(schemas)) :
                      schemas \in {f \in [DOMAIN defs_input -> all_ok] :
                                       \A k \in DOMAIN defs_input : Ok(f[k]) \in rs(k)}}

parse_id(key, object) ==
    LET id_key == push_str(key, "$id")
    IN  IF "$id" \notin DOMAIN object THEN {Ok(None)}
        ELSE IF object["$id"].t = "String"
        THEN {Ok(Some(Uri_from_string(object["$id"].s)))}
        ELSE {Err(push_str(copy_of(id_key), "$id"), "InvalidType")}

\* each `?` returns the first stage's error; the stages are independent
parse_schema_object_NoFilter(key, object) ==
    LET vocabulary == parse_vocabulary(copy_of(key), object)
        defs == parse_defs(copy_of(key), object)
        id == parse_id(copy_of(key), object)
        roots == parse_root_schemas(key, object, DOMAIN object)
    IN  Errs(vocabulary) \cup
        (IF Oks(vocabulary) = {} THEN {} ELSE
         Errs(defs) \cup
         (IF Oks(defs) = {} THEN {} ELSE
          Errs(id) \cup
          (IF Oks(id) = {} THEN {} ELSE
           Errs(roots) \cup
           {Ok(JsonSchema_new(i.v, v.v, d.v, r.v[1], r.v[2])) :
                i \in Oks(id), v \in Oks(vocabulary), d \in Oks(defs), r \in Oks(roots)})))

parse_schema_object(key, object) ==
    LET vocabulary == parse_vocabulary(copy_of(key), object)
        defs == parse_defs(copy_of(key), object)
        id == parse_id(copy_of(key), object)
        roots == parse_root_schemas(key, object,
                     {k \in DOMAIN object : k # "$vocabulary" /\ k # "$defs" /\ k # "$id"})
    IN  Errs(vocabulary) \cup
        (IF Oks(vocabulary) = {} THEN {} ELSE
         Errs(defs) \cup
         (IF Oks(defs) = {} THEN {} ELSE
          Errs(id) \cup
          (IF Oks(id) = {} THEN {} ELSE
           Errs(roots) \cup
           {Ok(JsonSchema_new(i.v, v.v, d.v, r.v[1], r.v[2])) :
                i \in Oks(id), v \in Oks(vocabulary), d \in Oks(defs), r \in Oks(roots)})))

parse_json_schema_rec(key, json) ==
    IF json.t # "Object"
    THEN {Ok(with_root_schemas(<<Primitive(json)>>))}
    ELSE parse_schema_object(key, json.o)

parse_json_schema(json) == parse_json_schema_rec(Key_default, json)

-----------------------------------------------------------------------------
(* The inputs the model draws.                                              *)

RECURSIVE SeqsUpTo(_, _)
SeqsUpTo(S, n) ==
    IF n = 0 THEN {<<>>}
    ELSE SeqsUpTo(S, n - 1) \cup
         {Append(q, x) : q \in {r \in SeqsUpTo(S, n - 1) : Len(r) = n - 1}, x \in S}

Letters == {JString("a"), JString("b"), JString("c")}

Integer1 == JNumber(1, 0, 0, 0)

Fraction1_5 == JNumber(1, 0, 5, 0)

Scalars == Letters \cup {JString("x"), Integer1, Fraction1_5, JNull, JBoolean(TRUE)}

Arrays == {JArray(q) : q \in SeqsUpTo(Letters, MaxArrayLen)}

NestedArrays ==
    {JArray(<<JArray(<<JString("a")>>), JString("b")>>),
     JArray(<<JArray(<<JString("b"), JString("a")>>)>>),
     JArray(<<Integer1, Fraction1_5>>)}

Objects ==
    {JObject(o) : o \in UNION {[D -> {JString("a"), JString("b"), JArray(<<JString("a")>>)}] :
                               D \in SUBSET {"x", "y"}}}

\* the instance ["a","b","c","c"]
LongArray == JArray(<<JString("a"), JString("b"), JString("c"), JString("c")>>)

Instances == Scalars \cup Arrays \cup {LongArray} \cup NestedArrays \cup Objects

Keys == {Key_default, <<[idx |-> 0]>>}

Befores ==
    {<<>>, <<PrefixItemsLen(Key_default, 1)>>,
     <<PrefixItemsLen(Key_default, 1), PrefixItemsLen(Key_default, 2)>>}

S(x) == from_primitive(JString(x))

OfRoot(root) == with_root_schemas(<<root>>)

TypeNodes ==
    {Type_new(ts) : ts \in {<<"Integer">>, <<"Number">>, <<"String">>,
                            <<"String", "Integer">>, <<"Integer", "Number">>,
                            <<"Array", "Object">>}}

EnumNodes == {Enum_new(<<JString("a"), JString("b")>>), Enum_new(<<Integer1>>), Enum_new(<<>>)}

SubSchemaLists ==
    {<<S("a")>>, <<S("a"), S("b")>>, <<OfRoot(Type_new(<<"String">>))>>,
     <<OfRoot(Logic("Not", <<S("b")>>))>>,
     <<OfRoot(PrefixItems_new(<<S("a")>>))>>,
     <<S("a"), OfRoot(Enum_new(<<JString("a"), JString("b")>>))>>}

PropertyNodes ==
    {Property_new(name, subs, required) :
        name \in {"x", "y"}, subs \in SubSchemaLists, required \in BOOLEAN}

PrefixItemsNodes ==
    {PrefixItems_new(q) : q \in {<<>>, <<S("a")>>, <<S("a"), S("b")>>,
                                 <<S("a"), S("b"), S("c")>>,
                                 <<OfRoot(PrefixItems_new(<<S("a")>>)), S("b")>>}}

ItemsNodes ==
    {Items_new(sub) : sub \in {S("a"), S("c"), OfRoot(Items_new(S("a")))}}

ContainsNodes == {Contains_new(sub) : sub \in {S("a"), OfRoot(Type_new(<<"String">>))}}

MemberLists ==
    {<<S("a")>>, <<S("a"), S("b")>>, <<S("a"), S("a")>>, <<S("b")>>,
     <<S("a"), S("a"), S("a")>>,
     <<OfRoot(PrefixItems_new(<<S("b")>>)), OfRoot(Items_new(S("a")))>>,
     <<OfRoot(Logic("OneOf", <<S("a"), S("a")>>)), S("a")>>,
     <<OfRoot(Logic("Not", <<OfRoot(Logic("OneOf", <<S("a"), S("a")>>))>>))>>,
     <<OfRoot(Logic("Not", <<OfRoot(Logic("OneOf", <<S("a"), S("a")>>))>>)), S("a")>>}

LogicNodes ==
    {Logic(op, members) : op \in {"AllOf", "AnyOf", "OneOf"}, members \in MemberLists}
    \cup {Logic("Not", <<sub>>) : sub \in {S("a"), S("b"), OfRoot(Logic("Not", <<S("a")>>)),
                                          OfRoot(Type_new(<<"Integer">>))}}

JsonSchemaNodes ==
    {with_root_schemas(q) :
        q \in {<<>>,
               <<PrefixItems_new(<<S("a"), S("b")>>), Items_new(S("c"))>>,
               <<Items_new(S("c")), PrefixItems_new(<<S("a"), S("b")>>)>>,
               <<Type_new(<<"Array">>), Contains_new(S("a"))>>,
               <<Primitive(JString("a")), Ref(Primitive(JString("a")))>>,
               <<Properties(<<Property_new("x", <<S("a")>>, TRUE),
                              Property_new("y", <<S("b")>>, FALSE)>>)>>,
               <<Properties(<<Property_new("x", <<S("b")>>, TRUE),
                              Property_new("y", <<S("a")>>, TRUE),
                              Property_new("x", <<S("a")>>, FALSE)>>)>>,
               <<Logic("AllOf", <<S("a"), S("b")>>), Type_new(<<"Number">>)>>}}

Obj1(k1, v1) == JObject(k1 :> v1)

Obj2(k1, v1, k2, v2) == JObject((k1 :> v1) @@ (k2 :> v2))

Arr(q) == JArray(q)

\* the schema documents handed to the compiler
SchemaDocs ==
    {JString("a"),
     Obj1("type", JString("string")),
     Obj1("type", JString("integer")),
     Obj1("type", Arr(<<JString("number"), JString("integer")>>)),
     Obj1("type", JString("float")),
     Obj2("prefixItems", Arr(<<JString("a"), JString("b")>>), "items", JString("c")),
     Obj1("prefixItems", Arr(<<JString("a"), JString("b")>>)),
     Obj1("items", JString("a")),
     Obj1("contains", JString("a")),
     Obj1("allOf", Arr(<<JString("a"), JString("b")>>)),
     Obj1("anyOf", Arr(<<JString("a"), JString("b")>>)),
     Obj1("oneOf", Arr(<<JString("a"), JString("a")>>)),
     Obj1("oneOf", Arr(<<>>)),
     Obj1("allOf", JString("a")),
     Obj1("not", JString("a")),
     Obj1("enum", Arr(<<JString("a"), Integer1>>)),
     Obj2("enum", JString("a"), "format", JString("uri")),
     Obj2("not", Obj1("type", JString("string")), "multipleOf", Integer1),
     Obj2("$id", JString("urn:x"), "type", JString("array")),
     Obj2("$defs", Obj1("d", Obj1("oneOf", Arr(<<>>))), "$id", Integer1),
     Obj2("$defs", Obj1("d", JString("a")), "$vocabulary", Obj1("v", JBoolean(TRUE))),
     Obj2("$vocabulary", Obj2("v", JNull, "w", JNull), "oneOf", Arr(<<>>)),
     Obj2("allOf", Arr(<<Obj1("prefixItems", Arr(<<JString("b")>>)),
                        Obj1("items", JString("a"))>>),
          "unknown", JNull),
     JObject(("$id" :> JString("urn:x")) @@ ("$vocabulary" :> Obj1("v", JBoolean(TRUE)))
             @@ ("type" :> JString("string")) @@ ("enum" :> Arr(<<JString("a")>>))
             @@ ("title" :> JString("t")) @@ ("properties" :> Obj1("p", JNull))),
     Obj1("anyOf", Arr(<<JString("a"), Obj1("allOf", Arr(<<>>))>>))}

-----------------------------------------------------------------------------
(* The JSON lexer (json/lexer.rs).  A char is a one-character string; NBSP  *)
(* stands for U+00A0, a char for which char::is_whitespace holds and which  *)
(* is not one of the four JSON whitespace chars.  `chars` counts the chars  *)
(* the iterator has yielded: peek() is source[chars + 1].                   *)

Span_new(source_offset, line, line_offset, len) ==
    [source_offset |-> source_offset, line |-> line,
     line_offset |-> line_offset, len |-> len]

\* Span::lexeme: val.chars().skip(source_offset).take(len)
lexeme(src, span) ==
    LET first == span.source_offset + 1
        last == IF span.source_offset + span.len < Len(src)
                THEN span.source_offset + span.len ELSE Len(src)
    IN  IF first > last THEN <<>> ELSE SubSeq(src, first, last)

\* Span::inc_ptr as called on current_loc
inc_ptr_NewlineKeepsOffset(span, newline) ==
    IF ~newline
    THEN [span EXCEPT !.line_offset = @ + 1, !.source_offset = @ + 1]
    ELSE [span EXCEPT !.line_offset = 0, !.line = @ + 1]

inc_ptr(span, newline) ==
    IF ~newline
    THEN [span EXCEPT !.line_offset = @ + 1, !.source_offset = @ + 1]
    ELSE [span EXCEPT !.line_offset = 0, !.line = @ + 1, !.source_offset = @ + 1]

Token_Whitespace(span) == [token |-> "Whitespace", span |-> span]

\* ObjectStart, ObjectEnd, ArrayStart, ArrayEnd, Comma, Colon
Token_Single(name, span) == [token |-> name, span |-> span]

Token_Literal(literal) == [token |-> "Literal", literal |-> literal]

Literal_Number(span, string) == [literal |-> "Number", span |-> span, string |-> string]

Literal_String(span, string) == [literal |-> "String", span |-> span, string |-> string]

\* Literal::True, Literal::False, Literal::Null
Literal_Word(name, span) == [literal |-> name, span |-> span]

Token_span(tok) == IF tok.token = "Literal" THEN tok.literal.span ELSE tok.span

TokenizeError(kind, span) == [kind |-> kind, span |-> span]

\* what a lex_* function leaves: the iterator, current_loc and its result
Lexed(n, loc, result) == [ok |-> TRUE, chars |-> n, current_loc |-> loc, result |-> result]

LexErr(kind, span) == [ok |-> FALSE, error |-> TokenizeError(kind, span)]

single_chars == {"{", "}", ",", "[", "]", ":"}

single_token(char) ==
    CASE char = "{" -> "ObjectStart"
      [] char = "}" -> "ObjectEnd"
      [] char = "," -> "Comma"
      [] char = "[" -> "ArrayStart"
      [] char = "]" -> "ArrayEnd"
      [] char = ":" -> "Colon"

\* char::is_whitespace on the chars of the model
is_whitespace(char) == char \in {" ", "\n", "\r", "\t", "NBSP"}

\* 0x20, 0x0A, 0x0D, 0x09
json_whitespace(char) == char \in {" ", "\n", "\r", "\t"}

\* char::is_numeric on the chars of the model
is_numeric(char) == char \in {"0", "1", "2", "3", "4", "5", "6", "7", "8", "9"}

is_hex(char) ==
    \/ is_numeric(char)
    \/ char \in {"a", "b", "c", "d", "e", "f"}
    \/ char \in {"A", "B", "C", "D", "E", "F"}

\* char <= '\n' on the chars of the model
le_newline(char) == char \in {"\t", "\n"}

into_err_span(span) == [span EXCEPT !.len = @ + 1]

\* chars.take(length).collect()
take(src, n, length) ==
    LET last == IF n + length < Len(src) THEN n + length ELSE Len(src)
    IN  IF n + 1 > last THEN <<>> ELSE SubSeq(src, n + 1, last)

\* the loop of lex_whitespace
RECURSIVE lex_whitespace_loop(_, _, _, _)
lex_whitespace_loop(src, n, loc, my_loc) ==
    IF n < Len(src)
    THEN LET char == src[n + 1]
         IN  IF is_whitespace(char)
             THEN IF ~json_whitespace(char)
                  THEN LexErr("IllegalWhitespace", into_err_span(my_loc))
                  ELSE lex_whitespace_loop(src, n + 1, inc_ptr(loc, char = "\n"),
                                           [my_loc EXCEPT !.len = @ + 1])
             ELSE Lexed(n, loc, my_loc)
    ELSE Lexed(n, loc, my_loc)

lex_whitespace(src, n, loc) == lex_whitespace_loop(src, n, loc, loc)

\* the while loop of lex_number
RECURSIVE lex_number_loop(_, _, _, _, _)
lex_number_loop(src, n, loc, start_loc, string) ==
    IF n < Len(src) /\ (is_numeric(src[n + 1]) \/ src[n + 1] \in {"-", "e", "E", ".", "+"})
    THEN lex_number_loop(src, n + 1, inc_ptr(loc, FALSE),
                         [start_loc EXCEPT !.len = @ + 1], Append(string, src[n + 1]))
    ELSE Lexed(n, loc, Literal_Number(start_loc, string))

lex_number(src, n, loc) == lex_number_loop(src, n, loc, loc, <<>>)

\* inc_ptr(false) called k times in a row
RECURSIVE inc_ptr_times(_, _)
inc_ptr_times(span, k) ==
    IF k = 0 THEN span ELSE inc_ptr_times(inc_ptr(span, FALSE), k - 1)

\* the loop of lex_string; the closure inc() adds 1 to start_loc.len and calls
\* current_loc.inc_ptr(false)
RECURSIVE lex_string_loop(_, _, _, _, _, _)
lex_string_loop(src, n, loc, start_loc, string, in_string) ==
    IF n < Len(src)
    THEN LET char == src[n + 1]
             loc1 == inc_ptr(loc, FALSE)
             start1 == [start_loc EXCEPT !.len = @ + 1]
         IN  IF ~in_string /\ char = "\""
             THEN lex_string_loop(src, n + 1, loc1, start1, string, TRUE)
             ELSE IF char = "\\"
             THEN IF n + 1 < Len(src)
                  THEN LET next_char == src[n + 2]
                           loc2 == inc_ptr(loc1, FALSE)
                           start2 == [start1 EXCEPT !.len = @ + 1]
                       IN  IF next_char \in {"\\", "/", "b", "f", "n", "r", "t", "\""}
                           THEN lex_string_loop(src, n + 2, loc2, start2,
                                                string \o <<char, next_char>>, in_string)
                           ELSE IF next_char = "u"
                           THEN LET taken == take(src, n + 2, 4)
                                    hex_chars == SelectSeq(taken, is_hex)
                                IN  IF Len(hex_chars) = 4
                                    THEN lex_string_loop(src, n + 2 + Len(taken),
                                             inc_ptr_times(loc2, Len(hex_chars)),
                                             [start2 EXCEPT !.len = @ + Len(hex_chars)],
                                             string \o <<char, next_char>> \o hex_chars,
                                             in_string)
                                    ELSE LexErr("InvalidEscape", into_err_span(loc2))
                           ELSE LexErr("InvalidEscape", into_err_span(loc1))
                  ELSE LexErr("InvalidEscape", into_err_span(loc1))
             ELSE IF in_string /\ char = "\""
             THEN Lexed(n + 1, loc1, Literal_String(start1, string))
             ELSE IF le_newline(char)
             THEN LexErr("NewlineInString", into_err_span(loc))
             ELSE lex_string_loop(src, n + 1, loc1, start1, Append(string, char), in_string)
    ELSE LexErr("UnterminatedString", into_err_span(loc))

lex_string(src, n, loc) == lex_string_loop(src, n, loc, loc, <<>>, FALSE)

\* the closure with the inc_ptr loop one turn short (1..length)
test_LoopFromOne(src, n, loc, expected) ==
    LET length == Len(expected)
        string == take(src, n, length)
    IN  IF string = expected
        THEN Some(Lexed(n + length, inc_ptr_times(loc, length - 1),
                        [loc EXCEPT !.len = length]))
        ELSE None

\* the closure `test` of lex_word_literal
test(src, n, loc, expected) ==
    LET length == Len(expected)
        string == take(src, n, length)
    IN  IF string = expected
        THEN Some(Lexed(n + length, inc_ptr_times(loc, length), [loc EXCEPT !.len = length]))
        ELSE None

\* Option<Literal>, with the iterator and current_loc as a match leaves them
lex_word_literal(src, n, loc) ==
    LET start_char == src[n + 1]
        map(span, name) ==
            IF span = None THEN None
            ELSE Some([span.some EXCEPT !.result = Literal_Word(name, @)])
    IN  IF start_char = "n" THEN map(test(src, n, loc, <<"n", "u", "l", "l">>), "Null")
        ELSE IF start_char = "t" THEN map(test(src, n, loc, <<"t", "r", "u", "e">>), "True")
        ELSE IF start_char = "f"
        THEN map(test(src, n, loc, <<"f", "a", "l", "s", "e">>), "False")
        ELSE None

lex_literal(src, n, loc) ==
    IF n < Len(src)
    THEN LET char == src[n + 1]
         IN  IF is_numeric(char) \/ char = "-" THEN lex_number(src, n, loc)
             ELSE IF char = "\"" THEN lex_string(src, n, loc)
             ELSE LET span == lex_word_literal(src, n, loc)
                  IN  IF span # None THEN span.some
                      ELSE LexErr("InvalidLiteral", loc)
    ELSE LexErr("EOF", loc)

-----------------------------------------------------------------------------
(* Parser::parse_number (json/parser.rs).  Literals of at most               *)
(* MaxLiteralLen chars stay far inside i64, so the overflow arm of           *)
(* i64::from_str_radix is not reachable here.                                *)

ParseErr(kind, span) == [ok |-> FALSE, error |-> [kind |-> kind, span |-> span]]

\* str::contains for a one-char pattern
contains(string, char) == \E i \in 1..Len(string) : string[i] = char

\* str::split for a one-char pattern, collected
RECURSIVE split(_, _)
split(string, char) ==
    IF ~contains(string, char) THEN <<string>>
    ELSE LET i == CHOOSE i \in 1..Len(string) :
                     string[i] = char /\ \A j \in 1..(i - 1) : string[j] # char
         IN  <<SubSeq(string, 1, i - 1)>> \o split(SubSeq(string, i + 1, Len(string)), char)

\* the k-th parts.next()
next_part(parts, k) == IF k <= Len(parts) THEN Some(parts[k]) ELSE None

digit(char) ==
    CASE char = "0" -> 0 [] char = "1" -> 1 [] char = "2" -> 2 [] char = "3" -> 3
      [] char = "4" -> 4 [] char = "5" -> 5 [] char = "6" -> 6 [] char = "7" -> 7
      [] char = "8" -> 8 [] char = "9" -> 9

RECURSIVE digits_value(_, _)
digits_value(string, acc) ==
    IF string = <<>> THEN acc
    ELSE digits_value(Tail(string), acc * 10 + digit(Head(string)))

\* i64::from_str_radix(src, 10): an optional sign, then one or more digits
from_str_radix(src) ==
    LET signed == src # <<>> /\ src[1] \in {"+", "-"}
        body == IF signed THEN Tail(src) ELSE src
    IN  IF body = <<>> \/ \E i \in 1..Len(body) : ~is_numeric(body[i])
        THEN [ok |-> FALSE]
        ELSE Ok(IF signed /\ src[1] = "-" THEN 0 - digits_value(body, 0)
                ELSE digits_value(body, 0))

\* value.chars().take_while(|char| char.is_numeric() && char != &'0').count()
RECURSIVE take_while_count(_)
take_while_count(string) ==
    IF string # <<>> /\ is_numeric(Head(string)) /\ Head(string) # "0"
    THEN 1 + take_while_count(Tail(string))
    ELSE 0

\* the closure test_input of parse_number: Ok((leading_zeros, signed number))
test_input(input_span, string, allow_leading_zero) ==
    LET starts_minus == string # <<>> /\ string[1] = "-"
        negative == IF starts_minus THEN 0 - 1 ELSE 1
        unsigned == IF starts_minus THEN Tail(string) ELSE string
        leading_zeros == take_while_count(unsigned)
        parsed == from_str_radix(unsigned)
    IN  IF Len(unsigned) = 0 THEN ParseErr("InvalidNumber", input_span)
        ELSE IF ~parsed.ok THEN ParseErr("InvalidNumber", input_span)
        ELSE IF parsed.v # 0 /\ leading_zeros # 0 /\ ~allow_leading_zero
        THEN ParseErr("IllegalLeadingZero", input_span)
        ELSE Ok(<<leading_zeros, negative * parsed.v>>)

\* the first block of parse_number: (integer, rest, has_fraction, has_exponent)
parse_number_integer_rest(input_span, string) ==
    LET has_fraction == contains(string, ".")
        split_char == IF contains(string, ".") THEN Some(".")
                      ELSE IF contains(string, "e") THEN Some("e")
                      ELSE IF contains(string, "E") THEN Some("E")
                      ELSE None
        has_exponent == IF contains(string, ".")
                        THEN contains(string, "E") \/ contains(string, "e")
                        ELSE split_char # None
    IN  IF split_char # None
        THEN LET parts == split(string, split_char.some)
             IN  IF next_part(parts, 3) = None
                 THEN Ok([integer |-> next_part(parts, 1), rest |-> next_part(parts, 2),
                          has_fraction |-> has_fraction, has_exponent |-> has_exponent])
                 ELSE ParseErr("InvalidNumber", input_span)
        ELSE Ok([integer |-> Some(string), rest |-> None,
                 has_fraction |-> has_fraction, has_exponent |-> has_exponent])

\* the second block of parse_number: (fraction, exponent)
parse_number_fraction_exponent(input_span, rest, has_fraction, has_exponent) ==
    IF rest # None
    THEN LET split_char == IF contains(rest.some, "e") THEN Some("e")
                           ELSE IF contains(rest.some, "E") THEN Some("E")
                           ELSE None
         IN  IF split_char # None
             THEN LET parts == split(rest.some, split_char.some)
                  IN  IF has_fraction
                      THEN IF next_part(parts, 3) = None
                           THEN Ok([fraction |-> next_part(parts, 1),
                                    exponent |-> next_part(parts, 2)])
                           ELSE ParseErr("InvalidNumber", input_span)
                      ELSE IF next_part(parts, 2) = None
                           THEN Ok([fraction |-> None, exponent |-> next_part(parts, 1)])
                           ELSE ParseErr("InvalidNumber", input_span)
             ELSE IF has_fraction THEN Ok([fraction |-> rest, exponent |-> None])
             ELSE IF has_exponent THEN Ok([fraction |-> None, exponent |-> rest])
             ELSE Ok([fraction |-> None, exponent |-> None])
    ELSE Ok([fraction |-> None, exponent |-> None])

\* the end of parse_number with the two fields of the fraction tuple swapped
parse_number_segments_FractionSwapped(input_span, integer, fraction, exponent) ==
    LET int == IF integer # None THEN test_input(input_span, integer.some, FALSE)
               ELSE ParseErr("InvalidNumber", input_span)
        frac == IF fraction # None THEN test_input(input_span, fraction.some, TRUE)
                ELSE Ok(<<0, 0>>)
        exp == IF exponent # None THEN test_input(input_span, exponent.some, FALSE)
               ELSE Ok(<<0, 0>>)
    IN  IF ~int.ok THEN int
        ELSE IF ~frac.ok THEN frac
        ELSE IF frac.v[2] < 0 THEN ParseErr("InvalidNumber", input_span)
        ELSE IF ~exp.ok THEN exp
        ELSE Ok(JNumber(int.v[2], frac.v[2], frac.v[1], exp.v[2]))

\* the end of parse_number: test_input on the three segments
parse_number_segments(input_span, integer, fraction, exponent) ==
    LET int == IF integer # None THEN test_input(input_span, integer.some, FALSE)
               ELSE ParseErr("InvalidNumber", input_span)
        frac == IF fraction # None THEN test_input(input_span, fraction.some, TRUE)
                ELSE Ok(<<0, 0>>)
        exp == IF exponent # None THEN test_input(input_span, exponent.some, FALSE)
               ELSE Ok(<<0, 0>>)
    IN  IF ~int.ok THEN int
        ELSE IF ~frac.ok THEN frac
        ELSE IF frac.v[2] < 0 THEN ParseErr("InvalidNumber", input_span)
        ELSE IF ~exp.ok THEN exp
        ELSE Ok(JNumber(int.v[2], frac.v[1], frac.v[2], exp.v[2]))

parse_number(input_span, string) ==
    LET first == parse_number_integer_rest(input_span, string)
    IN  IF ~first.ok THEN first
        ELSE LET second == parse_number_fraction_exponent(input_span, first.v.rest,
                               first.v.has_fraction, first.v.has_exponent)
             IN  IF ~second.ok THEN second
                 ELSE parse_number_segments(input_span, first.v.integer,
                                            second.v.fraction, second.v.exponent)

-----------------------------------------------------------------------------
(* Parser::parse_tokens (json/parser.rs). The token iterator is the         *)
(* filtered token sequence and the number of tokens it has yielded: next()  *)
(* on (toks, i) yields toks[i + 1] when i < Len(toks) and None otherwise.   *)

\* ParseError::NoMoreTokens, the one variant that holds no Span
NoMoreTokens == [ok |-> FALSE, error |-> [kind |-> "NoMoreTokens"]]

\* ParseError::span
ParseError_span(error) ==
    IF error.kind = "NoMoreTokens" THEN None ELSE Some(error.span)

\* Option::unwrap on None: the thread panics and no Result is returned
unwrap_None == [ok |-> FALSE, panic |-> "Option::unwrap on None"]

\* Ok((value, tokens)): an Option<Json> and how far the iterator has got
Parsed(value, i) == [ok |-> TRUE, v |-> value, iter |-> i]

\* HashMap::insert
insert(data, name, parsed) ==
    [x \in (DOMAIN data) \cup {name} |-> IF x = name THEN parsed ELSE data[x]]

is_string(tok) == tok.token = "Literal" /\ tok.literal.literal = "String"

RECURSIVE parse_first_token(_, _)
RECURSIVE parse_object(_, _, _, _)
RECURSIVE parse_array(_, _, _, _)

\* one turn of parse_object's loop and the turns after it; data is the
\* HashMap built so far
parse_object(start, toks, i, data) ==
    IF i >= Len(toks) THEN ParseErr("UnclosedObject", start)
    ELSE LET first_token == toks[i + 1]
         IN  IF first_token.token = "ObjectEnd"
             THEN Parsed(Some(JObject(data)), i + 1)
             ELSE IF DOMAIN data # {} /\ first_token.token # "Comma"
             THEN ParseErr("IllegalObject", Token_span(first_token))
             ELSE IF DOMAIN data # {} /\ i + 1 >= Len(toks)
             THEN ParseErr("IllegalObject", Token_span(first_token))
             ELSE LET j == IF DOMAIN data = {} THEN i + 1 ELSE i + 2
                      possible_name == toks[j]
                  IN  IF ~is_string(possible_name)
                      THEN ParseErr("InvalidKeyType", Token_span(first_token))
                      ELSE IF ~(j < Len(toks) /\ toks[j + 1].token = "Colon")
                      THEN \* the second object_tok.next() of the error arm
                           IF j + 1 < Len(toks)
                           THEN ParseErr("ColonExpected", Token_span(toks[j + 2]))
                           ELSE unwrap_None
                      ELSE LET r == parse_first_token(toks, j + 1)
                           IN  IF ~r.ok THEN r
                               ELSE IF r.v = None THEN NoMoreTokens
                               ELSE parse_object(start, toks, r.iter,
                                        insert(data, possible_name.literal.string, r.v.some))

\* one turn of parse_array's loop and the turns after it; data is the Vec
\* built so far
parse_array(start, toks, i, data) ==
    IF i >= Len(toks) THEN ParseErr("UnclosedArray", start)
    ELSE LET tok == toks[i + 1]
         IN  IF tok.token = "ArrayEnd" THEN Parsed(Some(JArray(data)), i + 1)
             ELSE IF data # <<>> /\ tok.token # "Comma"
             THEN ParseErr("ExtraComma", Token_span(tok))
             ELSE LET j == IF data = <<>> THEN i ELSE i + 1
                      r == parse_first_token(toks, j)
                  IN  IF ~r.ok THEN r
                      ELSE IF r.v = None
                      THEN IF r.iter < Len(toks)
                           THEN ParseErr("IllegalArray", Token_span(toks[r.iter + 1]))
                           ELSE unwrap_None
                      ELSE parse_array(start, toks, r.iter, Append(data, r.v.some))

parse_first_token(toks, i) ==
    IF i >= Len(toks) THEN NoMoreTokens
    ELSE LET token == toks[i + 1]
         IN  IF token.token = "Literal"
             THEN IF token.literal.literal = "Number"
                  THEN LET n == parse_number(token.literal.span, token.literal.string)
                       IN  IF ~n.ok THEN n ELSE Parsed(Some(n.v), i + 1)
                  ELSE IF token.literal.literal = "String"
                  THEN Parsed(Some(JString(token.literal.string)), i + 1)
                  ELSE IF token.literal.literal = "Null" THEN Parsed(Some(JNull), i + 1)
                  ELSE IF token.literal.literal = "False"
                  THEN Parsed(Some(JBoolean(FALSE)), i + 1)
                  ELSE Parsed(Some(JBoolean(TRUE)), i + 1)
             ELSE IF token.token = "Whitespace" THEN Parsed(None, i + 1)
             ELSE IF token.token = "ArrayStart" THEN parse_array(token.span, toks, i + 1, <<>>)
             ELSE IF token.token = "ObjectStart"
             THEN parse_object(token.span, toks, i + 1, EmptyMap)
             ELSE IF token.token = "Colon" THEN ParseErr("ExtraColon", token.span)
             ELSE IF token.token = "Comma" THEN Parsed(None, i + 1)
             ELSE IF token.token = "ObjectEnd" THEN ParseErr("UnopenedObject", token.span)
             ELSE ParseErr("UnopenedArray", token.span)

not_whitespace(tok) == tok.token # "Whitespace"

\* Result<Option<Json>, ParseError>
parse_tokens(toks) ==
    LET filtered == SelectSeq(toks, not_whitespace)
        r == parse_first_token(filtered, 0)
    IN  IF ~r.ok THEN r
        ELSE IF r.iter < Len(filtered)
        THEN ParseErr("LeftOverTokens", Token_span(filtered[r.iter + 1]))
        ELSE Ok(r.v)

-----------------------------------------------------------------------------
(* The state machine: a caller compiles a schema document and validates an  *)
(* instance against it, or calls one node's validate_json as the unit tests *)
(* do.                                                                      *)

NoSchema == [none |-> TRUE]

\* no lexer has been made
LexerOff ==
    /\ lex_pc = "off"
    /\ source = <<>>
    /\ chars = 0
    /\ current_loc = Span_new(0, 0, 0, 0)
    /\ tokens = <<>>
    /\ lex_error = None

\* parse_number has not been called
NumberOff ==
    /\ num_pc = "off"
    /\ number_value = <<>>
    /\ number = None

\* parse_tokens has not been called
ParserOff ==
    /\ parse_pc = "off"
    /\ tokens_in = <<>>
    /\ parse_result = None

\* no schema has been compiled and validate_json has not been called
SchemaOff ==
    /\ pc = "off"
    /\ called = "none"
    /\ self = NoSchema
    /\ schema_json = JNull
    /\ schema = NoSchema
    /\ key_to_input = Key_default
    /\ input = JNull
    /\ before = <<>>
    /\ annotations = <<>>
    /\ success = TRUE

Init ==
    /\ pc = "idle"
    /\ called = "none"
    /\ self = NoSchema
    /\ schema_json = JNull
    /\ schema = NoSchema
    /\ key_to_input \in Keys
    /\ input \in Instances
    /\ before \in Befores
    /\ annotations = before
    /\ success = TRUE
    /\ LexerOff
    /\ NumberOff
    /\ ParserOff

\* the caller's frame: validate_json was entered on `node` and has returned r
Returned(name, node, r) ==
    /\ pc' = "returned"
    /\ called' = name
    /\ self' = node
    /\ annotations' = r.annotations
    /\ success' = r.success
    /\ UNCHANGED <<schema_json, schema, key_to_input, input, before>>
    /\ UNCHANGED <<lexer_vars, number_vars, parser_vars>>

ParseJsonSchema ==
    /\ pc = "idle"
    /\ \E doc \in SchemaDocs : \E r \in parse_json_schema(doc) :
          /\ schema_json' = doc
          /\ schema' = r
          /\ pc' = IF r.ok THEN "compiled" ELSE "compile_error"
    /\ UNCHANGED <<called, self, key_to_input, input, before, annotations, success>>
    /\ UNCHANGED <<lexer_vars, number_vars, parser_vars>>

ValidateJson ==
    /\ pc = "compiled"
    /\ Returned("JsonSchema", schema.v,
                JsonSchema_validate_json(schema.v, key_to_input, input, annotations))

CallJsonSchema ==
    /\ pc = "idle"
    /\ \E node \in JsonSchemaNodes :
          Returned("JsonSchema", node,
                   JsonSchema_validate_json(node, key_to_input, input, annotations))

CallType ==
    /\ pc = "idle"
    /\ \E node \in TypeNodes :
          Returned("Type", node, Type_validate_json(node, key_to_input, input, annotations))

CallEnum ==
    /\ pc = "idle"
    /\ \E node \in EnumNodes :
          Returned("Enum", node, Enum_validate_json(node, key_to_input, input, annotations))

CallProperty ==
    /\ pc = "idle"
    /\ \E node \in PropertyNodes :
          Returned("Property", node,
                   Property_validate_json(node, key_to_input, input, annotations))

CallPrefixItems ==
    /\ pc = "idle"
    /\ \E node \in PrefixItemsNodes :
          Returned("PrefixItems", node,
                   PrefixItems_validate_json(node, key_to_input, input, annotations))

CallItems ==
    /\ pc = "idle"
    /\ \E node \in ItemsNodes :
          Returned("Items", node, Items_validate_json(node, key_to_input, input, annotations))

CallContains ==
    /\ pc = "idle"
    /\ \E node \in ContainsNodes :
          Returned("Contains", node,
                   Contains_validate_json(node, key_to_input, input, annotations))

CallLogicApplier ==
    /\ pc = "idle"
    /\ \E node \in LogicNodes :
          Returned("LogicApplier", node,
                   LogicApplier_validate_json(node, key_to_input, input, annotations))

Next ==
    \/ ParseJsonSchema
    \/ ValidateJson
    \/ CallJsonSchema
    \/ CallType
    \/ CallEnum
    \/ CallProperty
    \/ CallPrefixItems
    \/ CallItems
    \/ CallContains
    \/ CallLogicApplier

Spec == Init /\ [][Next]_vars

-----------------------------------------------------------------------------
(* Lexer::lex_str: one step per turn of the loop of lex_into.               *)

\* the pieces input strings are put together from
Fragments ==
    { <<"{">>, <<" ">>, <<"\n">>, <<"NBSP">>, <<"\"">>, <<"\\", "u">>,
      <<"0", "a", "1", "F">>, <<"\\", "\"">>, <<"\\", "x">>, <<"t", "r", "u", "e">>,
      <<"n", "u", "l">>, <<"-", "1", "e">> }

RECURSIVE Concatenations(_)
Concatenations(k) ==
    IF k = 0 THEN {<<>>}
    ELSE LET shorter == Concatenations(k - 1)
         IN  shorter \cup {q \o f : q \in shorter, f \in Fragments}

Sources == Concatenations(MaxFragments)

InitLex ==
    /\ lex_pc = "lexing"
    /\ source \in Sources
    /\ chars = 0
    /\ current_loc = Span_new(0, 0, 0, 0)
    /\ tokens = <<>>
    /\ lex_error = None
    /\ SchemaOff
    /\ NumberOff
    /\ ParserOff

\* a lex_* call has returned r: push the token, or return the error
LexReturned(r, token) ==
    IF r.ok
    THEN /\ tokens' = Append(tokens, token)
         /\ chars' = r.chars
         /\ current_loc' = r.current_loc
         /\ UNCHANGED <<lex_pc, lex_error>>
    ELSE /\ lex_pc' = "Err"
         /\ lex_error' = r.error
         /\ UNCHANGED <<tokens, chars, current_loc>>

LexSingleChar ==
    /\ lex_pc = "lexing"
    /\ chars < Len(source)
    /\ source[chars + 1] \in single_chars
    /\ LET char == source[chars + 1]
           start_loc == [current_loc EXCEPT !.len = 1]
       IN  /\ chars' = chars + 1
           /\ current_loc' = inc_ptr(current_loc, FALSE)
           /\ tokens' = Append(tokens, Token_Single(single_token(char), start_loc))
    /\ UNCHANGED <<lex_pc, source, lex_error, schema_vars, number_vars, parser_vars>>

LexWhitespace ==
    /\ lex_pc = "lexing"
    /\ chars < Len(source)
    /\ source[chars + 1] \notin single_chars
    /\ is_whitespace(source[chars + 1])
    /\ LET r == lex_whitespace(source, chars, current_loc)
       IN  LexReturned(r, IF r.ok THEN Token_Whitespace(r.result) ELSE None)
    /\ UNCHANGED <<source, schema_vars, number_vars, parser_vars>>

LexLiteral ==
    /\ lex_pc = "lexing"
    /\ chars < Len(source)
    /\ source[chars + 1] \notin single_chars
    /\ ~is_whitespace(source[chars + 1])
    /\ LET r == lex_literal(source, chars, current_loc)
       IN  LexReturned(r, IF r.ok THEN Token_Literal(r.result) ELSE None)
    /\ UNCHANGED <<source, schema_vars, number_vars, parser_vars>>

\* chars.peek() is None: break, Ok(tokens)
LexBreak ==
    /\ lex_pc = "lexing"
    /\ chars >= Len(source)
    /\ lex_pc' = "Ok"
    /\ UNCHANGED <<source, chars, current_loc, tokens, lex_error, schema_vars, number_vars, parser_vars>>

NextLex ==
    \/ LexSingleChar
    \/ LexWhitespace
    \/ LexLiteral
    \/ LexBreak

SpecLex == InitLex /\ [][NextLex]_vars

-----------------------------------------------------------------------------
(* Parser::parse_number called on the text of a Literal::Number token.      *)

\* the chars lex_number keeps in a number token's text
NumberChars == {"0", "1", "2", "3", "7", "-", "+", "e", "E", "."}

\* the texts lex_number can produce: it is entered on a digit or on '-'
NumberLiterals ==
    {q \in SeqsUpTo(NumberChars, MaxLiteralLen) :
        q # <<>> /\ (is_numeric(q[1]) \/ q[1] = "-")}

InitNum ==
    /\ num_pc = "called"
    /\ number_value \in NumberLiterals
    /\ number = None
    /\ SchemaOff
    /\ LexerOff
    /\ ParserOff

ParseNumber ==
    /\ num_pc = "called"
    /\ number' = parse_number(Span_new(0, 0, 0, Len(number_value)), number_value)
    /\ num_pc' = "returned"
    /\ UNCHANGED <<number_value, schema_vars, lexer_vars, parser_vars>>

NextNum == ParseNumber

SpecNum == InitNum /\ [][NextNum]_vars

-----------------------------------------------------------------------------
(* Parser::parse_tokens called on a token slice. The slices are the tokens  *)
(* of texts put together from up to MaxTokens token texts, with the spans   *)
(* the lexer gives them on one line, and a few longer documents.            *)

\* the source text of one token: the six single chars, a space, the string
\* "a", the numbers 0 and 1, null
TokenTexts ==
    {<<"[">>, <<"]">>, <<"{">>, <<"}">>, <<",">>, <<":">>, <<" ">>,
     <<"\"", "a", "\"">>, <<"0">>, <<"1">>, <<"n", "u", "l", "l">>}

\* the Token the lexer makes of a token text that starts at `offset`
Token_of(text, offset) ==
    LET span == Span_new(offset, 0, offset, Len(text))
    IN  IF text[1] \in single_chars THEN Token_Single(single_token(text[1]), span)
        ELSE IF json_whitespace(text[1]) THEN Token_Whitespace(span)
        ELSE IF text[1] = "\"" 
        THEN Token_Literal(Literal_String(span, SubSeq(text, 2, Len(text) - 1)))
        ELSE IF text[1] = "n" THEN Token_Literal(Literal_Word("Null", span))
        ELSE Token_Literal(Literal_Number(span, text))

RECURSIVE Tokens_of(_, _)
Tokens_of(texts, offset) ==
    IF texts = <<>> THEN <<>>
    ELSE <<Token_of(Head(texts), offset)>>
         \o Tokens_of(Tail(texts), offset + Len(Head(texts)))

\* {"a":0}  {"a":0,"a":null}  {"a":0 "a":0}  [0,null]  [0 0]  [[],{}]
LongDocuments ==
    LET a == <<"\"", "a", "\"">>
        null == <<"n", "u", "l", "l">>
    IN  {<<<<"{">>, a, <<":">>, <<"0">>, <<"}">>>>,
         <<<<"{">>, a, <<":">>, <<"0">>, <<",">>, a, <<":">>, null, <<"}">>>>,
         <<<<"{">>, a, <<":">>, <<"0">>, <<" ">>, a, <<":">>, <<"0">>, <<"}">>>>,
         <<<<"[">>, <<"0">>, <<",">>, null, <<"]">>>>,
         <<<<"[">>, <<"0">>, <<" ">>, <<"0">>, <<"]">>>>,
         <<<<"[">>, <<"[">>, <<"]">>, <<",">>, <<"{">>, <<"}">>, <<"]">>>>}

TokenSlices ==
    {Tokens_of(texts, 0) : texts \in SeqsUpTo(TokenTexts, MaxTokens) \cup LongDocuments}

InitParse ==
    /\ parse_pc = "called"
    /\ tokens_in \in TokenSlices
    /\ parse_result = None
    /\ SchemaOff
    /\ LexerOff
    /\ NumberOff

ParseTokens ==
    /\ parse_pc = "called"
    /\ parse_result' = parse_tokens(tokens_in)
    /\ parse_pc' = IF parse_result'.ok \/ "error" \in DOMAIN parse_result' THEN "returned" ELSE "panicked"
    /\ UNCHANGED <<tokens_in, schema_vars, lexer_vars, number_vars>>

NextParse == ParseTokens

SpecParse == InitParse /\ [][NextParse]_vars

-----------------------------------------------------------------------------
(* Properties of the validator and the compiler, checked under Spec.        *)

IsPrefix(s, q) == Len(s) <= Len(q) /\ SubSeq(q, 1, Len(s)) = s

\* the annotations the returned call appended
New == SubSeq(annotations, Len(before) + 1, Len(annotations))

Count(q, x) == Cardinality({i \in 1..Len(q) : q[i] = x})

\* the annotation Vec after the first j members of `members` have been run in
\* order on (key, json), each on the Vec the one before it left
RECURSIVE Thread(_, _, _, _, _)
Thread(members, j, key, json, anns) ==
    IF j = 0 THEN anns
    ELSE JsonSchema_validate_json(members[j], key, json,
                                  Thread(members, j - 1, key, json, anns)).annotations

\* whether member j of `members` returns true when it is run after members 1..j-1
Succeeds(members, j, key, json, anns) ==
    JsonSchema_validate_json(members[j], key, json,
                             Thread(members, j - 1, key, json, anns)).success

Valid(members, key, json, anns) ==
    Cardinality({j \in 1..Len(members) : Succeeds(members, j, key, json, anns)})

RootOfKind(js, kind) == js.schemas[CHOOSE i \in 1..Len(js.schemas) : js.schemas[i].k = kind]

HasKind(js, kind) == \E i \in 1..Len(js.schemas) : js.schemas[i].k = kind

\* C1: a schema compiled from an object holding both prefixItems and items
\* validates an array as if prefixItems ran first, whatever order the compiler
\* visited the keys in: items only sees the elements after the prefix, and
\* {"prefixItems":["a","b"],"items":"c"} accepts ["a","b","c","c"] with the
\* single annotation PrefixItemsLen(root, 2).
C1_ItemsStartAfterPrefix ==
    (/\ pc = "returned" /\ schema # NoSchema
     /\ before = <<>> /\ input.t = "Array" /\ schema_json.t = "Object"
     /\ "prefixItems" \in DOMAIN schema_json.o /\ "items" \in DOMAIN schema_json.o)
    => /\ Ret(success, annotations) =
              JsonSchema_validate_json(
                  [self EXCEPT !.schemas = <<RootOfKind(self, "PrefixItems"),
                                             RootOfKind(self, "Items")>>],
                  key_to_input, input, before)
       /\ (input = Arr(<<JString("a"), JString("b"), JString("c"), JString("c")>>)
             => success /\ annotations = <<PrefixItemsLen(key_to_input, 2)>>)

\* C2: a Type holding Integer and not Number accepts every Number whose
\* fraction digits are 0 and rejects, with one TypeError(actual = Number),
\* every Number with non-zero fraction digits; a Type holding Number accepts
\* both.
C2_IntegerMatchesWholeNumbers ==
    (pc = "returned" /\ called = "Type" /\ input.t = "Number")
    => LET types == {self.types[i] : i \in 1..Len(self.types)}
       IN  /\ ("Integer" \in types /\ "Number" \notin types /\ input.fraction[2] = 0)
                => success /\ New = <<>>
           /\ ("Integer" \in types /\ "Number" \notin types /\ input.fraction[2] # 0)
                => ~success /\ New = <<TypeError(key_to_input, "Number")>>
           /\ "Number" \in types => success /\ New = <<>>

\* C3: with v the number of members that succeed, AllOf returns true iff
\* v = n, AnyOf iff v >= 1, OneOf iff v = 1, and Not(s) iff s fails.
C3_LogicTruthTable ==
    (pc = "returned" /\ called = "LogicApplier")
    => LET n == Len(self.schemas)
           v == Valid(self.schemas, key_to_input, input, before)
       IN  CASE self.op = "AllOf" -> success <=> (v = n)
             [] self.op = "AnyOf" -> success <=> (v >= 1)
             [] self.op = "OneOf" -> success <=> (v = 1)
             [] self.op = "Not" -> success <=> (v = 0)

C3_Witness ==
    /\ pc = "returned" /\ called = "LogicApplier" /\ self.op = "OneOf"
    /\ Len(self.schemas) = 2
    /\ Valid(self.schemas, key_to_input, input, before) = 1
    /\ success

\* the LogicError annotations of kind `kind` the applier `self` pushed itself
OwnLogicErrors(kind) ==
    Cardinality({i \in 1..Len(New) :
                    /\ New[i].a = "LogicError"
                    /\ New[i].kind = kind
                    /\ New[i].schema = self})

AllMembersSucceed ==
    Valid(self.schemas, key_to_input, input, before) = Len(self.schemas)

\* C4 as claimed: a OneOf whose members all succeed, a list of one included,
\* pushes exactly one LogicError of kind OneOfMoreThanOne.
C4_AllSucceedOneError ==
    (pc = "returned" /\ called = "LogicApplier" /\ self.op = "OneOf"
     /\ AllMembersSucceed)
    => OwnLogicErrors("OneOfMoreThanOne") = 1

\* C4 as amended: a OneOf of two or more members that all succeed fails and
\* pushes exactly one LogicError of kind OneOfMoreThanOne; a OneOf of one
\* member that succeeds returns true and pushes no LogicError.
C4_TwoOrMoreSucceed ==
    (pc = "returned" /\ called = "LogicApplier" /\ self.op = "OneOf"
     /\ AllMembersSucceed)
    => IF Len(self.schemas) >= 2
       THEN ~success /\ OwnLogicErrors("OneOfMoreThanOne") = 1
            /\ annotations[Len(annotations)] = LogicError(Key_default, self, "OneOfMoreThanOne")
       ELSE success /\ \A i \in 1..Len(New) : New[i].a = "LogicError" => New[i].schema # self

C4_Witness ==
    /\ pc = "returned" /\ called = "LogicApplier" /\ self.op = "OneOf"
    /\ Len(self.schemas) = 3
    /\ AllMembersSucceed
    /\ OwnLogicErrors("OneOfMoreThanOne") = 1

PropertyPresent == input.t = "Object" /\ self.name \in DOMAIN input.o

PropertyAbsent == input.t = "Object" /\ self.name \notin DOMAIN input.o

PropertySatisfied ==
    /\ PropertyPresent
    /\ \A j \in 1..Len(self.schemas) :
          Succeeds(self.schemas, j, push_str(key_to_input, self.name),
                   input.o[self.name], before)

MissingOutcome ==
    PropertyAbsent
    => /\ success = ~self.required
       /\ New = <<PropertyError(self, key_to_input, "Missing")>>

\* C5 as claimed: an absent property appends one PropertyError Missing at the
\* object's path and returns true iff it is not required; a present property
\* whose value satisfies every sub-schema returns true and appends nothing.
C5_PropertyOutcomes ==
    (pc = "returned" /\ called = "Property")
    => /\ MissingOutcome
       /\ PropertySatisfied => success /\ New = <<>>

\* C5 as amended: an absent property appends one PropertyError Missing at the
\* object's path and returns true iff it is not required; a present property
\* whose value satisfies every sub-schema returns true and appends no
\* annotation of its own, so the Vec grows by exactly what the sub-schemas
\* appended (nothing when they append nothing).
C5_PropertyOwnAnnotations ==
    (pc = "returned" /\ called = "Property")
    => /\ MissingOutcome
       /\ PropertySatisfied
            => /\ success
               /\ annotations = Thread(self.schemas, Len(self.schemas),
                                       push_str(key_to_input, self.name),
                                       input.o[self.name], before)
               /\ \A i \in 1..Len(New) :
                     New[i].a = "PropertyError" => New[i].schema # self

C5_Witness ==
    /\ pc = "returned" /\ called = "Property"
    /\ PropertySatisfied /\ success
    /\ New # <<>>

OwnPrefixItemsLen == PrefixItemsLen(key_to_input, Len(self.schemas))

\* C6 as claimed: every evaluation of a PrefixItems node with n sub-schemas at
\* path p appends exactly one PrefixItemsLen(p, n), for every instance, an
\* instance that is not an array included.
C6_AlwaysOnePrefixItemsLen ==
    (pc = "returned" /\ called = "PrefixItems")
    => Count(New, OwnPrefixItemsLen) = 1

\* C6 as amended: every evaluation of a PrefixItems node with n sub-schemas at
\* path p on an array instance (shorter than n, longer than n, valid or not)
\* appends exactly one PrefixItemsLen(p, n), as its last annotation; on an
\* instance that is not an array it appends only ArrayError NotArray at p,
\* no PrefixItemsLen, and returns false.
C6_OnePrefixItemsLenOnArrays ==
    (pc = "returned" /\ called = "PrefixItems")
    => IF input.t = "Array"
       THEN /\ Count(New, OwnPrefixItemsLen) = 1
            /\ annotations[Len(annotations)] = OwnPrefixItemsLen
       ELSE /\ New = <<ArrayError(key_to_input, "NotArray")>>
            /\ ~success

C6_Witness ==
    /\ pc = "returned" /\ called = "PrefixItems"
    /\ input.t = "Array" /\ Len(input.a) < Len(self.schemas)
    /\ ~success
    /\ Count(New, OwnPrefixItemsLen) = 1

\* the annotation a node pushes about itself, when the returned call pushed one
OwnAnnotation ==
    CASE called = "LogicApplier" /\ ~success ->
            Some(LogicError(Key_default, self,
                     IF self.op = "Not" THEN "NotIs"
                     ELSE LogicApplier_verdict(self.op,
                              Valid(self.schemas, key_to_input, input, before),
                              Len(self.schemas)).some))
      [] called = "Property" /\ PropertyPresent /\ ~success ->
            Some(PropertyError(self, push_str(key_to_input, self.name), "Invalid"))
      [] called = "PrefixItems" /\ input.t = "Array" -> Some(OwnPrefixItemsLen)
      [] OTHER -> None

\* the annotation Vec after the first j root schemas of the container js have
\* been run in order, each on the Vec the one before it left
RECURSIVE RootThread(_, _, _, _, _)
RootThread(js, j, key, json, anns) ==
    IF j = 0 THEN anns
    ELSE RootSchema_validate_json(js.schemas[j], js, key, json,
                                  RootThread(js, j - 1, key, json, anns)).annotations

\* what the members (root schemas, applicator members, property sub-schemas,
\* prefix items) of the returned call appended, member by member: the Vec
\* after the first j of them
SiblingThread(j) ==
    CASE called = "JsonSchema" -> RootThread(self, j, key_to_input, input, before)
      [] called = "LogicApplier" -> Thread(self.schemas, j, key_to_input, input, before)

SiblingsInOrder ==
    (called \in {"JsonSchema", "LogicApplier"})
    => /\ \A j \in 1..Len(self.schemas) : IsPrefix(SiblingThread(j - 1), SiblingThread(j))
       /\ IsPrefix(SiblingThread(Len(self.schemas)), annotations)

\* C9 as claimed: the annotations of an earlier sibling precede those of a
\* later one, and the annotation a node pushes about itself (LogicError,
\* PropertyError Invalid, PrefixItemsLen) precedes the annotations of the
\* node's sub-schemas: it is the first one the call appended.
C9_PreOrder ==
    (pc = "returned")
    => /\ SiblingsInOrder
       /\ OwnAnnotation # None => New[1] = OwnAnnotation.some

\* C9 as amended: the annotations of an earlier sibling precede those of a
\* later one, and the annotation a node pushes about itself (LogicError,
\* PropertyError Invalid, PrefixItemsLen) follows the annotations of the
\* node's sub-schemas: it is the last one the call appended.
C9_PostOrder ==
    (pc = "returned")
    => /\ SiblingsInOrder
       /\ OwnAnnotation # None
            => /\ New # <<>>
               /\ New[Len(New)] = OwnAnnotation.some

C9_Witness ==
    /\ pc = "returned" /\ called = "LogicApplier" /\ self.op = "AllOf"
    /\ OwnAnnotation # None
    /\ Len(New) = 3
    /\ New[1].a = "Unequal" /\ New[2].a = "Unequal"
    /\ New[3] = OwnAnnotation.some

-----------------------------------------------------------------------------
(* Properties of the lexer, checked under SpecLex.                          *)

RECURSIVE Lexemes(_, _)
Lexemes(src, toks) ==
    IF toks = <<>> THEN <<>>
    ELSE lexeme(src, Token_span(Head(toks))) \o Lexemes(src, Tail(toks))

\* C8: when lex_str returns Ok the tokens cover every input char exactly
\* once: each token's span starts where the one before it ends, the first at
\* char 0 and the last ending at the end of the input, and the lexemes of the
\* tokens, concatenated in order, are the input string.
C8_LexemesReproduceInput ==
    (lex_pc = "Ok")
    => /\ Lexemes(source, tokens) = source
       /\ \A i \in 1..Len(tokens) :
             /\ Token_span(tokens[i]).len >= 1
             /\ Token_span(tokens[i]).source_offset
                   = (IF i = 1 THEN 0
                      ELSE Token_span(tokens[i - 1]).source_offset
                              + Token_span(tokens[i - 1]).len)
       /\ current_loc.source_offset = Len(source)

C8_Witness ==
    /\ lex_pc = "Ok"
    /\ Len(tokens) = 2
    /\ tokens[1].token = "Literal" /\ tokens[1].literal.literal = "String"
    /\ tokens[1].literal.string = <<"\\", "\"">>
    /\ tokens[2].token = "Whitespace" /\ lexeme(source, tokens[2].span) = <<"\n">>

\* C19: in the token Vec the lexer fills, at every turn of its loop and in
\* the Vec it returns, the spans follow each other without gap or overlap:
\* the first token starts at source_offset 0 and every other token starts at
\* the source_offset plus len of the token before it.
C19_SpansContiguous ==
    /\ tokens # <<>> => Token_span(tokens[1]).source_offset = 0
    /\ \A i \in 1..(Len(tokens) - 1) :
          Token_span(tokens[i]).source_offset + Token_span(tokens[i]).len
              = Token_span(tokens[i + 1]).source_offset

\* true, a newline, then { on the next line, at offset 5
C19_Witness ==
    /\ lex_pc = "Ok"
    /\ Len(tokens) = 3
    /\ tokens[1] = Token_Literal(Literal_Word("True", Span_new(0, 0, 0, 4)))
    /\ tokens[2] = Token_Whitespace(Span_new(4, 0, 4, 1))
    /\ tokens[3] = Token_Single("ObjectStart", Span_new(5, 1, 0, 1))

\* the 0-based offset of the first whitespace char that JSON does not permit,
\* in the whitespace run the lexer was entering at char `chars`
Offender ==
    (CHOOSE i \in (chars + 1)..Len(source) :
        /\ ~json_whitespace(source[i])
        /\ \A j \in (chars + 1)..(i - 1) : json_whitespace(source[j])) - 1

\* C20: when the lexer returns IllegalWhitespace, the span of the error has
\* length 1 and its source_offset is the offset of the offending char, also
\* when permitted whitespace comes before the offender in the same run.
C20_IllegalWhitespaceSpan ==
    (lex_pc = "Err" /\ lex_error.kind = "IllegalWhitespace")
    => /\ lex_error.span.len = 1
       /\ lex_error.span.source_offset = Offender

-----------------------------------------------------------------------------
(* Properties of the number parser, checked under SpecNum.                  *)

\* a decimal integer that is not zero and has no leading zero, with or
\* without a minus sign
SignedDecimal(q) ==
    LET body == IF q # <<>> /\ q[1] = "-" THEN Tail(q) ELSE q
    IN  /\ body # <<>>
        /\ \A i \in 1..Len(body) : is_numeric(body[i])
        /\ body[1] # "0"

SignedValue(q) ==
    IF q[1] = "-" THEN 0 - digits_value(Tail(q), 0) ELSE digits_value(q, 0)

\* C10: a number literal whose integer segment is a non-zero decimal integer
\* without a leading zero, alone (12, -7) or followed by an exponent segment
\* of the same shape (1e23), is accepted, and the Json::Number returned holds
\* the signed value of the integer segment in `integer` and the signed value
\* of the exponent segment in `exponent` (0 when there is none).
C10_AcceptsPlainIntegers ==
    (num_pc = "returned")
    => /\ SignedDecimal(number_value)
            => /\ number.ok
               /\ number.v.integer = SignedValue(number_value)
               /\ number.v.exponent = 0
       /\ \A i \in 2..(Len(number_value) - 1) :
             LET int == SubSeq(number_value, 1, i - 1)
                 exp == SubSeq(number_value, i + 1, Len(number_value))
             IN  (number_value[i] \in {"e", "E"} /\ SignedDecimal(int) /\ SignedDecimal(exp))
                 => /\ number.ok
                    /\ number.v.integer = SignedValue(int)
                    /\ number.v.exponent = SignedValue(exp)

\* a decimal integer, with or without a minus sign, that starts with the digit
\* 0 and whose value is not zero
LeadingZeroNonZero(q) ==
    LET body == IF q # <<>> /\ q[1] = "-" THEN Tail(q) ELSE q
    IN  /\ body # <<>>
        /\ \A i \in 1..Len(body) : is_numeric(body[i])
        /\ body[1] = "0"
        /\ digits_value(body, 0) # 0

\* a decimal integer, with or without a minus sign
Decimal(q) ==
    LET body == IF q # <<>> /\ q[1] = "-" THEN Tail(q) ELSE q
    IN  body # <<>> /\ \A i \in 1..Len(body) : is_numeric(body[i])

IsIllegalLeadingZero(result) == ~result.ok /\ result.error.kind = "IllegalLeadingZero"

\* C11: parse_number returns IllegalLeadingZero for every literal whose
\* integer segment starts with the digit 0 and is not zero (012), and for
\* every literal whose integer segment is well formed and whose exponent
\* segment starts with the digit 0 and is not zero (1e05, 0e05).
C11_LeadingZeroRejected ==
    (num_pc = "returned")
    => /\ LeadingZeroNonZero(number_value) => IsIllegalLeadingZero(number)
       /\ \A i \in 2..(Len(number_value) - 1) :
             LET int == SubSeq(number_value, 1, i - 1)
                 exp == SubSeq(number_value, i + 1, Len(number_value))
             IN  (/\ number_value[i] \in {"e", "E"}
                  /\ Decimal(int)
                  /\ LeadingZeroNonZero(int) \/ LeadingZeroNonZero(exp))
                 => IsIllegalLeadingZero(number)

\* a schema whose only root schema is a Primitive
IsPrimitive(js) == Len(js.schemas) = 1 /\ js.schemas[1].k = "Primitive"

\* the returned call ran an AllOf applier whose members are all Primitive
AllOfPrimitives ==
    /\ pc = "returned"
    /\ called = "LogicApplier"
    /\ self.op = "AllOf"
    /\ \A j \in 1..Len(self.schemas) : IsPrimitive(self.schemas[j])

\* the members of the AllOf whose value differs from the instance
Differing == {j \in 1..Len(self.schemas) : self.schemas[j].schemas[1].json # input}

\* C15: an AllOf applier over Primitive members appends one Unequal for each
\* member that differs from the instance and, when at least one member
\* differs, exactly one LogicError of kind AllOfMissing, and returns false;
\* when no member differs it appends nothing and returns true.
C15_AllOfUnequalPerMember ==
    AllOfPrimitives
    => /\ success = (Differing = {})
       /\ Cardinality({i \in 1..Len(New) : New[i].a = "Unequal"}) = Cardinality(Differing)
       /\ \A j \in Differing :
             Count(New, Unequal(self.schemas[j], key_to_input))
                 = Cardinality({h \in Differing : self.schemas[h] = self.schemas[j]})
       /\ Cardinality({i \in 1..Len(New) : New[i].a = "LogicError"})
             = IF Differing = {} THEN 0 ELSE 1
       /\ OwnLogicErrors("AllOfMissing") = IF Differing = {} THEN 0 ELSE 1
       /\ Len(New) = Cardinality(Differing) + (IF Differing = {} THEN 0 ELSE 1)

\* {"allOf":["a","b"]} on "a": false, one Unequal, one AllOfMissing
C15_Witness ==
    /\ AllOfPrimitives
    /\ self.schemas = <<S("a"), S("b")>>
    /\ input = JString("a")
    /\ ~success
    /\ Len(New) = 2
    /\ New[1].a = "Unequal"
    /\ New[2].a = "LogicError"

\* the annotation Vec after sub-schema `sub` has been run on the first j
\* elements of `values` in order, element i at key ++ [i]
RECURSIVE ElementThread(_, _, _, _, _)
ElementThread(sub, j, key, values, anns) ==
    IF j = 0 THEN anns
    ELSE JsonSchema_validate_json(sub, push_idx(key, j - 1), values[j],
                                  ElementThread(sub, j - 1, key, values, anns)).annotations

\* C16: the annotation list only grows: the list a node's evaluation was
\* entered with is a prefix of the list it leaves, and what the sub-schemas
\* of a Not, AnyOf, OneOf or AllOf applier or of a Contains node appended
\* stays in the list, whether the enclosing node succeeds or fails.
C16_AppendOnly ==
    (pc = "returned")
    => /\ IsPrefix(before, annotations)
       /\ (called = "LogicApplier")
          => IsPrefix(Thread(self.schemas, Len(self.schemas), key_to_input, input, before),
                      annotations)
       /\ (called = "Contains" /\ input.t = "Array")
          => IsPrefix(ElementThread(self.schema, Len(input.a), key_to_input, input.a,
                                    before),
                      annotations)

\* a Not that succeeds because its member failed, the member's annotation kept
C16_Witness ==
    /\ pc = "returned"
    /\ called = "LogicApplier"
    /\ self.op = "Not"
    /\ success
    /\ before # <<>>
    /\ Len(annotations) > Len(before)
    /\ New[1].a = "Unequal"

\* the positions of the PrefixItemsLen annotations of path `key` in anns
PrefixItemsLenAt(anns, key) ==
    {i \in 1..Len(anns) : anns[i].a = "PrefixItemsLen" /\ anns[i].key = key}

\* the count of the last PrefixItemsLen of path `key` in anns
LastPrefixItemsLen(anns, key) ==
    LET hits == PrefixItemsLenAt(anns, key)
    IN  anns[CHOOSE i \in hits : \A j \in hits : j <= i].len

\* C17: an Items node evaluated on an array at path p, with one or more
\* PrefixItemsLen annotations of path p already in the list, validates the
\* elements from the count of the last of them on: with PrefixItemsLen(p, 1)
\* followed by PrefixItemsLen(p, 2) in the list it starts at index 2.
C17_ItemsUsesLastPrefixItemsLen ==
    (/\ pc = "returned"
     /\ called = "Items"
     /\ input.t = "Array"
     /\ PrefixItemsLenAt(before, key_to_input) # {})
    => Ret(success, annotations)
           = Items_for(self, LastPrefixItemsLen(before, key_to_input), key_to_input,
                       input.a, Ret(TRUE, before))

\* the annotation Vec after the first j properties have been run in order on
\* (key, json), each on the Vec the one before it left
RECURSIVE PropertyThread(_, _, _, _, _)
PropertyThread(properties, j, key, json, anns) ==
    IF j = 0 THEN anns
    ELSE Property_validate_json(properties[j], key, json,
                                PropertyThread(properties, j - 1, key, json, anns)).annotations

\* the returned call ran a schema whose only root schema is a Properties node
PropertiesCalled ==
    /\ pc = "returned"
    /\ called = "JsonSchema"
    /\ Len(self.schemas) = 1
    /\ self.schemas[1].k = "Properties"

\* C18: a Properties node runs every one of its properties, in order, whatever
\* the earlier ones returned, and succeeds exactly when every property does;
\* on an instance that is not an object each of its n >= 1 properties appends
\* one PropertyError of kind IncorrectType and the node fails.
C18_PropertiesRunsEveryProperty ==
    PropertiesCalled
    => LET properties == self.schemas[1].properties
           n == Len(properties)
           ok(j) == Property_validate_json(properties[j], key_to_input, input,
                        PropertyThread(properties, j - 1, key_to_input, input, before)).success
       IN  /\ annotations = PropertyThread(properties, n, key_to_input, input, before)
           /\ success = (\A j \in 1..n : ok(j))
           /\ (input.t # "Object")
              => /\ ~success
                 /\ New = [j \in 1..n |->
                              PropertyError(properties[j], key_to_input, "IncorrectType")]

\* three properties on the object {"x":"a","y":"b"} at the root path: the
\* first fails and the second still runs and leaves its annotations
C18_Witness ==
    /\ PropertiesCalled
    /\ Len(self.schemas[1].properties) = 3
    /\ input = JObject(("x" :> JString("a")) @@ ("y" :> JString("b")))
    /\ key_to_input = Key_default
    /\ ~success
    /\ Len(New) = 4
    /\ New[2] = PropertyError(self.schemas[1].properties[1], <<[id |-> "x"]>>, "Invalid")
    /\ New[4] = PropertyError(self.schemas[1].properties[2], <<[id |-> "y"]>>, "Invalid")

\* the keyword a compiled root schema comes from
keyword_of(root) ==
    CASE root.k = "Logic" ->
            (CASE root.op = "AllOf" -> "allOf" [] root.op = "AnyOf" -> "anyOf"
               [] root.op = "OneOf" -> "oneOf" [] root.op = "Not" -> "not")
      [] root.k = "Enum" -> "enum"
      [] root.k = "Type" -> "type"
      [] root.k = "Items" -> "items"
      [] root.k = "PrefixItems" -> "prefixItems"
      [] root.k = "Contains" -> "contains"
      [] OTHER -> "none"

DollarKeys == {"$id", "$vocabulary", "$defs"}

\* C14: a compiled schema object partitions the keys of its document: $id,
\* $vocabulary and $defs go to id, vocabulary and defs and nowhere else, each
\* known keyword that is present yields exactly one root schema, every other
\* key is in unknowns with the Json value it had, so that the number of root
\* schemas plus the number of unknowns is the number of keys other than the
\* three $ keys; and a compile error is never at an unknown key.
C14_KeysPartitioned ==
    /\ (schema_json.t = "Object" /\ schema # NoSchema /\ schema.ok)
       => LET object == schema_json.o
              names == (DOMAIN object) \ DollarKeys
              js == schema.v
          IN  /\ Len(js.schemas) + Cardinality(DOMAIN js.unknowns) = Cardinality(names)
              /\ DOMAIN js.unknowns = names \ Keywords
              /\ \A k \in DOMAIN js.unknowns : js.unknowns[k] = object[k]
              /\ \A k \in names \cap Keywords :
                    Cardinality({i \in 1..Len(js.schemas) :
                                     keyword_of(js.schemas[i]) = k}) = 1
              /\ (js.id = None) = ("$id" \notin DOMAIN object)
              /\ (js.vocabulary = None) = ("$vocabulary" \notin DOMAIN object)
              /\ (js.defs = None) = ("$defs" \notin DOMAIN object)
    /\ (schema_json.t = "Object" /\ schema # NoSchema /\ ~schema.ok)
       => schema.key[1].id \in Keywords \cup DollarKeys

C14_Witness ==
    /\ pc = "compiled"
    /\ schema_json.t = "Object"
    /\ {"$id", "$vocabulary", "type", "enum", "title", "properties"} = DOMAIN schema_json.o
    /\ Len(schema.v.schemas) = 2
    /\ DOMAIN schema.v.unknowns = {"title", "properties"}

\* the chars of literal q after its first '.', up to the first e or E after
\* it or to the end
FractionSegment(q) ==
    LET dot == CHOOSE i \in 1..Len(q) : q[i] = "." /\ \A j \in 1..(i - 1) : q[j] # "."
        stops == {i \in (dot + 1)..Len(q) : q[i] \in {"e", "E"}}
        last == IF stops = {} THEN Len(q)
                ELSE (CHOOSE i \in stops : \A j \in stops : i <= j) - 1
    IN  SubSeq(q, dot + 1, last)

AllDigits(q) == q # <<>> /\ \A i \in 1..Len(q) : is_numeric(q[i])

\* how many '0' chars come before the first char of q that is not '0'
RECURSIVE ZerosBefore(_)
ZerosBefore(q) == IF q # <<>> /\ Head(q) = "0" THEN 1 + ZerosBefore(Tail(q)) ELSE 0

\* the accepted literal has a fraction segment of digits
HasFraction ==
    /\ num_pc = "returned"
    /\ number.ok
    /\ contains(number_value, ".")
    /\ AllDigits(FractionSegment(number_value))

\* C23: for an accepted literal whose fraction segment holds a non-zero
\* digit, the stored fraction is (leading_zeros, digits) with leading_zeros
\* the number of '0' chars before the first non-zero digit of the segment and
\* digits the decimal value of the segment: 0.03 gives (1, 3), 0.3 gives
\* (0, 3).
C23_FractionLeadingZeros ==
    (HasFraction /\ digits_value(FractionSegment(number_value), 0) # 0)
    => number.v.fraction = <<ZerosBefore(FractionSegment(number_value)),
                             digits_value(FractionSegment(number_value), 0)>>

\* C24 as claimed: a Number the parser produced has fraction.digits = 0
\* exactly when its literal holds no '.'.
C24_DigitsZeroIffNoPoint ==
    (num_pc = "returned" /\ number.ok)
    => ((number.v.fraction[2] = 0) <=> ~contains(number_value, "."))

\* C24 amended: a Number the parser produced from a literal without '.' has
\* the fraction (0, 0); from a literal with a fraction segment of digits it
\* has fraction.digits equal to the decimal value of the segment, which is 0
\* for the segments 0, 00, ...
C24_DigitsAreSegmentValue ==
    /\ (num_pc = "returned" /\ number.ok /\ ~contains(number_value, "."))
       => number.v.fraction = <<0, 0>>
    /\ HasFraction
       => number.v.fraction[2] = digits_value(FractionSegment(number_value), 0)

\* 0.0 is accepted, with fraction.digits = 0
C24_Witness ==
    /\ HasFraction
    /\ number_value = <<"0", ".", "0">>
    /\ number.v.fraction[2] = 0

\* some digit of the integer or fraction segment of q is not 0
MantissaNonZero(q) ==
    \E i \in 1..Len(q) :
        /\ is_numeric(q[i]) /\ q[i] # "0"
        /\ \A j \in 1..(i - 1) : q[j] \notin {"e", "E"}

\* q with one more '0' right after its first '.'
OneMoreZero(q) ==
    LET dot == CHOOSE i \in 1..Len(q) : q[i] = "." /\ \A j \in 1..(i - 1) : q[j] # "."
    IN  SubSeq(q, 1, dot) \o <<"0">> \o SubSeq(q, dot + 1, Len(q))

\* parse_number called on the literal q
Parsed_number(q) == parse_number(Span_new(0, 0, 0, Len(q)), q)

\* C29: two accepted literals that denote different numbers give Numbers that
\* are not equal: a literal with a non-zero mantissa and the same literal
\* with a minus sign in front (0.3 and -0.3), and a literal with a non-zero
\* fraction segment and the same literal with one more 0 after the point
\* (0.03 and 0.003).
C29_DifferentNumbersDiffer ==
    (num_pc = "returned" /\ number.ok)
    => /\ (number_value[1] # "-" /\ MantissaNonZero(number_value))
          => LET negated == Parsed_number(<<"-">> \o number_value)
             IN  negated.ok => negated.v # number.v
       /\ (HasFraction /\ digits_value(FractionSegment(number_value), 0) # 0)
          => LET smaller == Parsed_number(OneMoreZero(number_value))
             IN  smaller.ok => smaller.v # number.v

LogicKeywords == {"allOf", "anyOf", "oneOf"}

\* the compiler has returned for a schema document that is an object
Compiled == schema_json.t = "Object" /\ schema # NoSchema

\* the compile error is at keyword k of the document or below it
ErrorUnder(k) == ~schema.ok /\ schema.key[1] = [id |-> k]

\* member i of array q is an object with the one key k2, a logic keyword whose
\* value is an empty array, and every member before it is not an object
FirstMemberEmpty(q, i, k2) ==
    /\ q[i].t = "Object"
    /\ DOMAIN q[i].o = {k2}
    /\ k2 \in LogicKeywords
    /\ q[i].o[k2] = JArray(<<>>)
    /\ \A j \in 1..(i - 1) : q[j].t # "Object"

\* C25: compiling allOf, anyOf or oneOf fails with ArrayEmpty when the value
\* is an empty array and with NotArray when it is not an array, the key of
\* the error being the path of the schema followed by the keyword, at the
\* root and in a schema that is a member of another applier; a non-empty
\* array compiles to an applier with one member per element, member i being
\* the compiled element i.
C25_LogicKeywordArrays ==
    Compiled
    => \A k \in LogicKeywords \cap DOMAIN schema_json.o :
          LET v == schema_json.o[k]
              key == push_str(Key_default, k)
          IN  /\ (v.t # "Array")
                 => ~schema.ok /\ (ErrorUnder(k) => schema = Err(key, "NotArray"))
              /\ (v.t = "Array" /\ v.a = <<>>)
                 => ~schema.ok /\ (ErrorUnder(k) => schema = Err(key, "ArrayEmpty"))
              /\ (v.t = "Array" /\ v.a # <<>> /\ schema.ok)
                 => \E r \in 1..Len(schema.v.schemas) :
                       LET root == schema.v.schemas[r]
                       IN  /\ keyword_of(root) = k
                           /\ Len(root.schemas) = Len(v.a)
                           /\ \A i \in 1..Len(v.a) :
                                 Ok(root.schemas[i]) \in parse_json_schema_rec(key, v.a[i])
              /\ (v.t = "Array")
                 => \A i \in 1..Len(v.a) : \A k2 \in LogicKeywords :
                       FirstMemberEmpty(v.a, i, k2)
                       => schema = Err(push_str(key, k2), "ArrayEmpty")

\* {"oneOf":[]} fails with ArrayEmpty at oneOf
C25_Witness ==
    /\ pc = "compile_error"
    /\ schema_json = Obj1("oneOf", Arr(<<>>))
    /\ schema = Err(<<[id |-> "oneOf"]>>, "ArrayEmpty")

\* C26: a JsonSchema::validate_json call that returns false has appended at
\* least one annotation: no failure is silent, a Contains node on an empty
\* array or on an array without a matching element included.
C26_FailureLeavesAnnotation ==
    (pc = "returned" /\ called = "JsonSchema" /\ ~success)
    => Len(annotations) > Len(before)

\* C27: a LogicError that an applier evaluated at path key_to_input appends
\* for itself has that path as its key, at the root and at a path inside an
\* array.
C27_LogicErrorKey ==
    (pc = "returned" /\ called = "LogicApplier")
    => \A i \in 1..Len(New) :
          (New[i].a = "LogicError" /\ New[i].schema = self) => New[i].key = key_to_input

\* a schema whose only root schema is an Items node
IsItemsOnly(js) == Len(js.schemas) = 1 /\ js.schemas[1].k = "Items"

\* C28: an Items node whose own container holds no PrefixItems validates
\* every element from index 0, whatever PrefixItemsLen annotations other
\* sub-schemas appended at the same path before it: as member j of an
\* applier, after a member that holds a PrefixItems, it succeeds exactly when
\* every element of the array satisfies its sub-schema.
C28_ItemsIgnoresForeignPrefix ==
    (pc = "returned" /\ called = "LogicApplier" /\ input.t = "Array" /\ before = <<>>)
    => \A j \in 1..Len(self.schemas) :
          IsItemsOnly(self.schemas[j])
          => Succeeds(self.schemas, j, key_to_input, input, before)
                = (\A e \in 1..Len(input.a) :
                      JsonSchema_validate_json(self.schemas[j].schemas[1].schema,
                                               push_idx(key_to_input, e - 1),
                                               input.a[e], <<>>).success)

-----------------------------------------------------------------------------
(* Properties of Parser::parse_tokens, checked under SpecParse.             *)

OnlyWhitespace(toks) == \A i \in 1..Len(toks) : toks[i].token = "Whitespace"

\* C12: parse_tokens called on an empty token slice, or on a slice of
\* Whitespace tokens only, returns Ok(None) and no error.
C12_EmptyIsOkNone ==
    (parse_pc # "called" /\ OnlyWhitespace(tokens_in))
    => parse_pc = "returned" /\ parse_result = Ok(None)

\* C13: whenever parse_tokens returns Err(e) for a slice that holds a token
\* other than Whitespace (a truncated [0, or {"a": among them), e.span() is
\* Some.
C13_EveryErrorHasSpan ==
    (parse_pc = "returned" /\ ~parse_result.ok /\ ~OnlyWhitespace(tokens_in))
    => ParseError_span(parse_result.error) # None

\* the tokens parse_tokens hands on: the slice without its Whitespace tokens
Filtered == SelectSeq(tokens_in, not_whitespace)

\* the slice opens an object whose first key is a string that no Colon follows
KeyWithoutColon ==
    /\ Len(Filtered) >= 2
    /\ Filtered[1].token = "ObjectStart"
    /\ is_string(Filtered[2])
    /\ Len(Filtered) >= 3 => Filtered[3].token # "Colon"

\* C21: when the string key of an object is not followed by a Colon token,
\* parse_object returns ColonExpected, whatever follows the key: nothing,
\* one more token, or several.
C21_ColonExpected ==
    (parse_pc # "called" /\ KeyWithoutColon)
    => /\ parse_pc = "returned"
       /\ ~parse_result.ok
       /\ parse_result.error.kind = "ColonExpected"

\* a String, the Number 0 or null
IsScalarToken(tok) ==
    /\ tok.token = "Literal"
    /\ tok.literal.literal = "Number" => tok.literal.string = <<"0">>

\* the slice is an array cut before its ArrayEnd: [ then elements and commas
\* in turn, ending after [, after an element or after a comma
CutArray ==
    /\ Filtered # <<>>
    /\ Filtered[1].token = "ArrayStart"
    /\ \A i \in 2..Len(Filtered) :
          IF i % 2 = 0 THEN IsScalarToken(Filtered[i]) ELSE Filtered[i].token = "Comma"

\* C22: when the tokens end before the ArrayEnd of an array, parse_array
\* returns UnclosedArray with the span of the ArrayStart token, wherever the
\* array is cut: after [, after an element, after a comma.
C22_UnclosedArray ==
    (parse_pc # "called" /\ CutArray)
    => /\ parse_pc = "returned"
       /\ parse_result = ParseErr("UnclosedArray", Token_span(Filtered[1]))

\* C30: parse_tokens returns Ok or Err for every token slice: it never panics
\* on an unwrap of an exhausted token iterator.
C30_NeverPanics == parse_pc # "panicked"

=============================================================================
